---- MODULE Spec2Model ----
(***************************************************************************)
(* Hybrid retrieval engine of HQA_Project (src/src/rag): the BM25 lexical  *)
(* index (bm25_index.py), reciprocal rank fusion, the reranker adapter     *)
(* (reranker.py) and the retrieval orchestrator (retriever.py).            *)
(*                                                                         *)
(* Representation.  A Python str is a sequence of characters; a character  *)
(* is a one-element TLA+ string, and a Hangul syllable is written by its   *)
(* romanised name ("mae" for U+B9E4).  An Optional value is <<>> (None, or *)
(* a missing dict key) or <<v>>.  A float is an integer number of Unit-ths *)
(* (Unit is divisible by every RRF denominator the model forms, so RRF     *)
(* scores are exact).                                                      *)
(***************************************************************************)
EXTENDS Integers, Sequences, FiniteSets, TLC

VARIABLES
    BM25_AVAILABLE,        \* bm25_index._BM25_AVAILABLE (set at import)
    _corpus,               \* BM25IndexManager._corpus
    _tokenized_corpus,     \* BM25IndexManager._tokenized_corpus
    _bm25,                 \* BM25IndexManager._bm25 (None or a BM25Okapi)
    _indexed_ids,          \* BM25IndexManager._indexed_ids
    _changes_since_save,   \* BM25IndexManager._changes_since_save
    auto_save,             \* BM25IndexManager.auto_save
    save_interval,         \* BM25IndexManager.save_interval
    persist_file,          \* the file at BM25IndexManager.persist_path
    text_store,            \* VectorStoreManager.text_store (the Chroma collection)
    config,                \* RAGRetriever's retrieval settings
    deleted_sources,       \* sources delete_document has reported deleted
    threads,               \* the calls in progress on the manager, one per thread
    last                   \* the last call: its arguments and what it returned

vars == <<BM25_AVAILABLE, _corpus, _tokenized_corpus, _bm25, _indexed_ids,
          _changes_since_save, auto_save, save_interval, persist_file,
          text_store, config, deleted_sources, threads, last>>

bm25_vars == <<_corpus, _tokenized_corpus, _bm25, _indexed_ids,
               _changes_since_save, persist_file>>

----------------------------------------------------------------------------
(* Python values *)

None == <<>>
Some(v) == <<v>>

Min(a, b) == IF a <= b THEN a ELSE b
Max(a, b) == IF a >= b THEN a ELSE b

\* dict.get(key, default) on a metadata dict
Get(metadata, key, default) ==
    IF metadata[key] = None THEN default ELSE metadata[key][1]

\* the empty dict {}
EmptyDict == [source |-> None, page_num |-> None]

Meta(source, page_num) == [source |-> source, page_num |-> page_num]

\* langchain Document(page_content=..., metadata=...)
Document(page_content, metadata) ==
    [page_content |-> page_content, metadata |-> metadata]

\* s[:n] for n >= 0
Prefix(s, n) == SubSeq(s, 1, Min(n, Len(s)))

\* s[:n] for any integer n (a negative n counts from the end)
SliceTo(s, n) ==
    IF n >= 0 THEN Prefix(s, n) ELSE SubSeq(s, 1, Max(Len(s) + n, 0))

Rep(c, n) == [i \in 1..n |-> c]

----------------------------------------------------------------------------
(* Characters *)

LowerLetters == {"a", "b", "c", "d", "e", "f", "g", "h", "i", "j", "k", "l", "m",
                 "n", "o", "p", "q", "r", "s", "t", "u", "v", "w", "x", "y", "z"}
UpperLetters == {"A", "B", "C", "D", "E", "F", "G", "H", "I", "J", "K", "L", "M",
                 "N", "O", "P", "Q", "R", "S", "T", "U", "V", "W", "X", "Y", "Z"}
Digits == {"0", "1", "2", "3", "4", "5", "6", "7", "8", "9"}
\* Hangul syllables (the range U+AC00..U+D7A3) that the model's texts use
Hangul == {"mae", "chul", "seong", "jang", "ryul", "go", "jeo", "pyeong", "ga",
           "bae", "eok", "jo", "man", "won", "ju", "jeom", "en", "dal", "reo",
           "wi", "an"}
Whitespace == {" ", "\n", "\t"}
\* \w of a Python 3 str pattern
WordChars == LowerLetters \cup UpperLetters \cup Digits \cup Hangul \cup {"_"}

UpperSeq == <<"A", "B", "C", "D", "E", "F", "G", "H", "I", "J", "K", "L", "M",
              "N", "O", "P", "Q", "R", "S", "T", "U", "V", "W", "X", "Y", "Z">>
LowerSeq == <<"a", "b", "c", "d", "e", "f", "g", "h", "i", "j", "k", "l", "m",
              "n", "o", "p", "q", "r", "s", "t", "u", "v", "w", "x", "y", "z">>

LowerChar(c) ==
    IF c \in UpperLetters
    THEN LowerSeq[CHOOSE i \in 1..26 : UpperSeq[i] = c]
    ELSE c

\* str.lower()
Lower(s) == [i \in 1..Len(s) |-> LowerChar(s[i])]

SetMin(S) == CHOOSE x \in S : \A y \in S : x <= y
SetMax(S) == CHOOSE x \in S : \A y \in S : x >= y

\* the last index j >= i - 1 such that s[i..j] lies in class (stop: the
\* positions from i on that are outside class)
RunStop(s, stop) == IF stop = {} THEN Len(s) ELSE SetMin(stop) - 1
RunEnd(s, i, class) == RunStop(s, {j \in i..Len(s) : s[j] \notin class})

\* str.strip() (keep: the positions that are not whitespace)
StripTo(s, keep) ==
    IF keep = {} THEN <<>> ELSE SubSeq(s, SetMin(keep), SetMax(keep))
Strip(s) == StripTo(s, {i \in 1..Len(s) : s[i] \notin Whitespace})

\* seqs[1] \o seqs[2] \o ...
RECURSIVE Concat(_)
Concat(seqs) == IF seqs = <<>> THEN <<>> ELSE Head(seqs) \o Concat(Tail(seqs))

----------------------------------------------------------------------------
(* bm25_index._tokenize_korean.  re.findall gives the leftmost matches,    *)
(* left to right, not overlapping; each XMatchEnd(s, i) is the end of the  *)
(* match of pattern X that starts at i, or 0 when there is none.           *)

\* the alternatives of the unit group, in the order the pattern tries them
NumberUnits == << <<"bae">>, <<"%">>, <<"eok">>, <<"jo">>, <<"man">>, <<"won">>,
                  <<"ju">>, <<"dal", "reo">>, <<"wi", "an">>, <<"en">>,
                  <<"jeom">>, <<"b", "p">>, <<"b", "p", "s">> >>

StartsWithAt(s, i, u) ==
    /\ i + Len(u) - 1 <= Len(s)
    /\ \A j \in 1..Len(u) : s[i + j - 1] = u[j]

\* the unit at i: the first alternative that matches wins
FirstUnitEnd(i, hits) ==
    IF hits = {} THEN 0 ELSE i + Len(NumberUnits[SetMin(hits)]) - 1
UnitEndAt(s, i) ==
    FirstUnitEnd(i, {n \in 1..Len(NumberUnits) : StartsWithAt(s, i, NumberUnits[n])})

\* r'[\-+]?\d[\d,]*\.?\d*\s*(?:unit)'.  No unit starts with a character the
\* greedy runs consume, so the greedy parse is the only one.
\* c: the end of \.?\d* ; a: the end of \d[\d,]* ; d: the first digit
NumberAfterFraction(s, c) == UnitEndAt(s, RunEnd(s, c + 1, Whitespace) + 1)
NumberAfterPoint(s, b) == NumberAfterFraction(s, RunEnd(s, b + 1, Digits))
NumberAfterInteger(s, a) ==
    NumberAfterPoint(s, IF a + 1 <= Len(s) /\ s[a + 1] = "." THEN a + 1 ELSE a)
NumberFromDigit(s, d) ==
    IF d > Len(s) \/ s[d] \notin Digits THEN 0
    ELSE NumberAfterInteger(s, RunEnd(s, d + 1, Digits \cup {","}))
NumberMatchEnd(s, i) ==
    NumberFromDigit(s, IF s[i] \in {"-", "+"} THEN i + 1 ELSE i)

\* r'[a-z][a-z/&]+[a-z]': the match ends at the last letter of the run
LastOf(ends) == IF ends = {} THEN 0 ELSE SetMax(ends)
EnglishMatchEnd(s, i) ==
    IF s[i] \notin LowerLetters THEN 0
    ELSE LastOf({j \in (i + 2)..RunEnd(s, i + 1, LowerLetters \cup {"/", "&"}) :
                    s[j] \in LowerLetters})

\* r'[ga-hih]{2,}': a run of two or more Hangul syllables
RunOfAtLeast(i, run, n) == IF run - i + 1 >= n THEN run ELSE 0
KoreanMatchEnd(s, i) ==
    IF s[i] \notin Hangul THEN 0 ELSE RunOfAtLeast(i, RunEnd(s, i, Hangul), 2)

\* r'\b\d{4,}\b': a run of four or more digits between word boundaries
StandaloneRun(s, i, run) ==
    IF run = Len(s) \/ s[run + 1] \notin WordChars
    THEN RunOfAtLeast(i, run, 4) ELSE 0
StandaloneMatchEnd(s, i) ==
    IF s[i] \notin Digits \/ (i > 1 /\ s[i - 1] \in WordChars) THEN 0
    ELSE StandaloneRun(s, i, RunEnd(s, i, Digits))

MatchEnd(kind, s, i) ==
    CASE kind = "number" -> NumberMatchEnd(s, i)
      [] kind = "english" -> EnglishMatchEnd(s, i)
      [] kind = "korean" -> KoreanMatchEnd(s, i)
      [] OTHER -> StandaloneMatchEnd(s, i)

\* the first position >= i where the pattern matches, or 0
FirstOf(starts) == IF starts = {} THEN 0 ELSE SetMin(starts)
NextMatch(kind, s, i) == FirstOf({j \in i..Len(s) : MatchEnd(kind, s, j) # 0})

\* re.findall from position i on: b is where the next match starts, e where
\* it ends
RECURSIVE FindAllFrom(_, _, _)
MatchThenRest(kind, s, b, e) ==
    <<SubSeq(s, b, e)>> \o FindAllFrom(kind, s, e + 1)
MatchesFrom(kind, s, b) ==
    IF b = 0 THEN <<>> ELSE MatchThenRest(kind, s, b, MatchEnd(kind, s, b))
FindAllFrom(kind, s, i) == MatchesFrom(kind, s, NextMatch(kind, s, i))

FindAll(kind, s) == FindAllFrom(kind, s, 1)

\* the four patterns, in the order their matches are put in the token list
Patterns == <<"number", "english", "korean", "standalone">>

\* tokens.extend(...): the number matches are stripped, the others are not
Extended(kind, found) ==
    IF kind = "number" THEN [i \in 1..Len(found) |-> Strip(found[i])] ELSE found

TokensOf(text_lower) ==
    Concat([p \in 1..Len(Patterns) |->
               Extended(Patterns[p], FindAll(Patterns[p], text_lower))])

_tokenize_korean(text) ==
    IF text = <<>> THEN <<>> ELSE TokensOf(Lower(text))

----------------------------------------------------------------------------
(* bm25_index.BM25IndexManager.  A method is an operator on self, the      *)
(* manager's fields; it gives the fields after the call, the value         *)
(* returned and whether the call raised.                                   *)

PrefixLen == 200

\* hashlib.md5(...).hexdigest()[:8]: a digest of its argument and of nothing
\* else (collisions of the 32-bit digest are not modelled)
ContentHash(bytes) == <<"md5", bytes>>

\* a key over the whole content
GenerateIdOfContent(doc) ==
    <<Get(doc.metadata, "source", "unknown"),
      Get(doc.metadata, "page_num", 0),
      ContentHash(doc.page_content)>>

\* f"{source}_{page}_{content_hash}": the three parts
_generate_id(doc) ==
    <<Get(doc.metadata, "source", "unknown"),
      Get(doc.metadata, "page_num", 0),
      ContentHash(Prefix(doc.page_content, PrefixLen))>>

BM25Document(doc_id, page_content, metadata, tokens) ==
    [doc_id |-> doc_id, page_content |-> page_content,
     metadata |-> metadata, tokens |-> tokens]

\* rank_bm25.BM25Okapi(corpus): the statistics of the corpus it was built from
BM25Okapi(tokenized_corpus) ==
    [corpus_size |-> Len(tokenized_corpus), doc_freqs |-> tokenized_corpus]

\* the default of the parameter save_interval
DefaultSaveInterval == 50

\* BM25IndexManager.__init__ on a path that holds no file
BM25IndexManager(auto_save_, save_interval_) ==
    [corpus |-> <<>>, tokenized_corpus |-> <<>>, bm25 |-> None,
     indexed_ids |-> {}, changes_since_save |-> 0,
     auto_save |-> auto_save_, save_interval |-> save_interval_,
     file |-> None]

Self == [corpus |-> _corpus, tokenized_corpus |-> _tokenized_corpus,
         bm25 |-> _bm25, indexed_ids |-> _indexed_ids,
         changes_since_save |-> _changes_since_save,
         auto_save |-> auto_save, save_interval |-> save_interval,
         file |-> persist_file]

Returned(self, ret) == [self |-> self, ret |-> Some(ret), raised |-> FALSE]
Raised(self) == [self |-> self, ret |-> None, raised |-> TRUE]

_rebuild_bm25(self) ==
    IF ~BM25_AVAILABLE \/ self.tokenized_corpus = <<>>
    THEN [self EXCEPT !.bm25 = None]
    ELSE [self EXCEPT !.bm25 = Some(BM25Okapi(self.tokenized_corpus))]

\* what os.makedirs, open(persist_path, "w") and json.dump can do
IOOutcomes == {"ok", "open_fails", "write_fails"}

\* a file cut off in the middle of json.dump
TornFile == [readable |-> FALSE, version |-> "1.0", corpus_size |-> 0,
             documents |-> <<>>]

\* the data save_index dumps
IndexData(corpus) ==
    [readable |-> TRUE, version |-> "1.0", corpus_size |-> Len(corpus),
     documents |-> [i \in 1..Len(corpus) |->
                       [doc_id |-> corpus[i].doc_id,
                        page_content |-> corpus[i].page_content,
                        metadata |-> corpus[i].metadata]]]

save_index(self, io) ==
    IF self.corpus = <<>> THEN Returned(self, None)
    ELSE CASE io = "open_fails" -> Raised(self)
           [] io = "write_fails" -> Raised([self EXCEPT !.file = Some(TornFile)])
           [] OTHER -> Returned([self EXCEPT !.file = Some(IndexData(self.corpus)),
                                             !.changes_since_save = 0], None)

\* a method's return after its call of save_index
ReturnAfterSave(saved, ret) ==
    IF saved.raised THEN saved ELSE Returned(saved.self, ret)

\* the loop body of add_documents without `if doc_id in self._indexed_ids:
\* continue`
AddDespiteIndexed(st, doc, doc_id, tokens) ==
    IF tokens = <<>> THEN st
    ELSE [self |-> [st.self EXCEPT
            !.corpus = Append(@, BM25Document(doc_id, doc.page_content,
                                              doc.metadata, tokens)),
            !.tokenized_corpus = Append(@, tokens),
            !.indexed_ids = @ \cup {doc_id}],
          added |-> st.added + 1]

\* the body of the loop of add_documents, from the duplicate check on:
\* st is [self, added]
AddUnlessIndexed(st, doc, doc_id, tokens) ==
    IF doc_id \in st.self.indexed_ids THEN st
    ELSE IF tokens = <<>> THEN st
    ELSE [self |-> [st.self EXCEPT
            !.corpus = Append(@, BM25Document(doc_id, doc.page_content,
                                              doc.metadata, tokens)),
            !.tokenized_corpus = Append(@, tokens),
            !.indexed_ids = @ \cup {doc_id}],
          added |-> st.added + 1]

\* one pass of the loop of add_documents
AddOne(st, doc) ==
    AddUnlessIndexed(st, doc, _generate_id(doc), _tokenize_korean(doc.page_content))

RECURSIVE AddLoop(_, _)
AddLoop(st, documents) ==
    IF documents = <<>> THEN st
    ELSE AddLoop(AddOne(st, Head(documents)), Tail(documents))

\* add_documents from the auto save on
AutoSaveAdded(counted, added, io) ==
    IF counted.auto_save /\ counted.changes_since_save >= counted.save_interval
    THEN ReturnAfterSave(save_index(counted, io), added)
    ELSE Returned(counted, added)

\* add_documents after its loop
AfterAddLoop(looped, io) ==
    IF looped.added > 0
    THEN AutoSaveAdded([_rebuild_bm25(looped.self) EXCEPT
                           !.changes_since_save = @ + looped.added],
                       looped.added, io)
    ELSE Returned(looped.self, looped.added)

add_documents(self, documents, io) ==
    IF ~BM25_AVAILABLE THEN Returned(self, 0)
    ELSE AfterAddLoop(AddLoop([self |-> self, added |-> 0], documents), io)

add_texts(self, texts, metadatas, io) ==
    add_documents(self,
                  [i \in 1..Len(texts) |->
                      Document(texts[i],
                               IF metadatas # None /\ metadatas[1] # <<>>
                                  /\ i <= Len(metadatas[1])
                               THEN metadatas[1][i] ELSE EmptyDict)],
                  io)

\* seq without the positions of `drop`, in order
RECURSIVE Without(_, _)
Without(seq, drop) ==
    IF seq = <<>> THEN <<>>
    ELSE Without(SubSeq(seq, 1, Len(seq) - 1), drop)
         \o (IF Len(seq) \in drop THEN <<>> ELSE <<seq[Len(seq)]>>)

\* delete_by_source that keeps the ranking structure it had before the pops
AfterPopsStale(popped, deleted, io) ==
    IF popped.auto_save
    THEN ReturnAfterSave(save_index(popped, io), deleted)
    ELSE Returned(popped, deleted)

\* delete_by_source after its pops
AfterPops(popped, deleted, io) ==
    IF popped.auto_save
    THEN ReturnAfterSave(
             save_index(IF popped.corpus # <<>> THEN _rebuild_bm25(popped)
                        ELSE [popped EXCEPT !.bm25 = None], io),
             deleted)
    ELSE Returned(IF popped.corpus # <<>> THEN _rebuild_bm25(popped)
                  ELSE [popped EXCEPT !.bm25 = None], deleted)

\* delete_by_source from `if not indices_to_remove` on
RemoveIndices(self, indices_to_remove, io) ==
    IF indices_to_remove = {} THEN Returned(self, 0)
    ELSE AfterPops([self EXCEPT
                       !.corpus = Without(@, indices_to_remove),
                       !.tokenized_corpus = Without(@, indices_to_remove),
                       !.indexed_ids = @ \ {self.corpus[i].doc_id :
                                               i \in indices_to_remove}],
                   Cardinality(indices_to_remove), io)

delete_by_source(self, source, io) ==
    IF ~BM25_AVAILABLE THEN Returned(self, 0)
    ELSE RemoveIndices(self,
                       {i \in 1..Len(self.corpus) :
                           self.corpus[i].metadata.source = Some(source)},
                       io)

\* clear(): the lists, the keys and the ranking structure are dropped and
\* os.remove takes the file away
clear(self) ==
    Returned([self EXCEPT !.corpus = <<>>, !.tokenized_corpus = <<>>,
                          !.indexed_ids = {}, !.bm25 = None,
                          !.changes_since_save = 0, !.file = None],
             None)

\* the loop of _load_index over the documents of the file
RECURSIVE LoadLoop(_, _)
LoadOne(self, doc_data, tokens) ==
    IF tokens = <<>> THEN self
    ELSE [self EXCEPT
            !.corpus = Append(@, BM25Document(doc_data.doc_id, doc_data.page_content,
                                              doc_data.metadata, tokens)),
            !.tokenized_corpus = Append(@, tokens),
            !.indexed_ids = @ \cup {doc_data.doc_id}]
\* doc_data["page_content"] and doc_data["doc_id"] are there
WellFormed(doc_data) == {"doc_id", "page_content"} \subseteq DOMAIN doc_data
\* the loop stops at the first entry that raises KeyError, with the entries
\* before it loaded
LoadLoop(self, documents) ==
    IF documents = <<>> THEN self
    ELSE IF ~WellFormed(Head(documents)) THEN self
    ELSE LoadLoop(LoadOne(self, Head(documents),
                          _tokenize_korean(Head(documents).page_content)),
                  Tail(documents))

\* _load_index after its loop
AfterLoadLoop(self) == IF self.corpus # <<>> THEN _rebuild_bm25(self) ELSE self

\* _load_index without `if self._corpus: self._rebuild_bm25()`
LoadUnbuilt(self) ==
    IF self.file = None THEN self
    ELSE IF ~BM25_AVAILABLE THEN self
    ELSE IF ~self.file[1].readable
    THEN [self EXCEPT !.corpus = <<>>, !.tokenized_corpus = <<>>, !.indexed_ids = {}]
    ELSE LoadLoop(self, self.file[1].documents)

\* the try block of _load_index: json.load raises on a file it cannot
\* read, the loop raises at an entry without a key it subscripts
LoadTried(self) ==
    IF ~self.file[1].readable THEN Raised(self)
    ELSE IF \E i \in 1..Len(self.file[1].documents) :
                ~WellFormed(self.file[1].documents[i])
    THEN Raised(LoadLoop(self, self.file[1].documents))
    ELSE Returned(AfterLoadLoop(LoadLoop(self, self.file[1].documents)), None)

\* an except branch that clears the corpus only
ClearedCorpusOnly(self) == [self EXCEPT !.corpus = <<>>]

\* the except branch of _load_index
Cleared(self) ==
    [self EXCEPT !.corpus = <<>>, !.tokenized_corpus = <<>>, !.indexed_ids = {}]

\* _load_index: no file, no rank_bm25, or the try block and, when it
\* raised, the except branch on what was loaded by then
_load_index(self) ==
    IF self.file = None THEN self
    ELSE IF ~BM25_AVAILABLE THEN self
    ELSE IF LoadTried(self).raised THEN Cleared(LoadTried(self).self)
    ELSE LoadTried(self).self

\* BM25IndexManager.__init__ on a path that holds `file`
Reopened(auto_save_, save_interval_, file) ==
    _load_index([BM25IndexManager(auto_save_, save_interval_) EXCEPT !.file = file])

\* sorted(indices, key=lambda i: key[i], reverse=True): stable, so equal keys
\* keep the order of `indices`
RECURSIVE SortedDesc(_, _)
BestFirst(indices, key, best) ==
    <<indices[best]>> \o SortedDesc(Without(indices, {best}), key)
SortedDesc(indices, key) ==
    IF indices = <<>> THEN <<>>
    ELSE BestFirst(indices, key,
             CHOOSE p \in 1..Len(indices) :
                /\ \A q \in 1..Len(indices) : key[indices[q]] <= key[indices[p]]
                /\ \A q \in 1..(p - 1) : key[indices[q]] < key[indices[p]])

\* the loop of search over top_indices, with its break
RECURSIVE TakePositive(_, _, _)
TakePositive(corpus, top_indices, scores) ==
    IF top_indices = <<>> THEN <<>>
    ELSE IF scores[Head(top_indices)] <= 0 THEN <<>>
    ELSE << <<Document(corpus[Head(top_indices)].page_content,
                       corpus[Head(top_indices)].metadata),
              scores[Head(top_indices)]>> >>
         \o TakePositive(corpus, Tail(top_indices), scores)

\* rank_bm25.BM25Okapi, as far as search depends on it: the sign of a score.
\* With N documents and n of them holding a term, the term's idf is
\* log(N - n + 0.5) - log(n + 0.5): above 0 when 2n < N, 0 when 2n = N and
\* below 0 when 2n > N; an idf below 0 is replaced by 0.25 times the average
\* idf of the vocabulary.  A document's score is the sum, over the query
\* tokens it holds, of the token's idf times a factor above 0.

Holds(tokens, term) == \E j \in 1..Len(tokens) : tokens[j] = term

\* the vocabulary of the corpus the structure was built from
Vocabulary(bm25) ==
    UNION {{bm25.doc_freqs[i][j] : j \in 1..Len(bm25.doc_freqs[i])} :
              i \in 1..bm25.corpus_size}

\* the number of documents that hold the term
DocCount(bm25, term) ==
    Cardinality({i \in 1..bm25.corpus_size : Holds(bm25.doc_freqs[i], term)})

\* the product over the terms of 2 * (N - n + 0.5) (upper) or of
\* 2 * (n + 0.5): the average idf is the log of the quotient of the two,
\* divided by the size of the vocabulary
RECURSIVE IdfProduct(_, _, _)
IdfFactor(bm25, term, rest, upper) ==
    (IF upper THEN 2 * (bm25.corpus_size - DocCount(bm25, term)) + 1
     ELSE 2 * DocCount(bm25, term) + 1)
    * IdfProduct(bm25, rest \ {term}, upper)
IdfProduct(bm25, terms, upper) ==
    IF terms = {} THEN 1
    ELSE IdfFactor(bm25, CHOOSE term \in terms : TRUE, terms, upper)

\* the signs the average idf can have (a sum of logs that is 0 in exact
\* arithmetic can round to either side)
Signs(upper, lower) ==
    IF upper > lower THEN {1} ELSE IF upper < lower THEN {-1} ELSE {-1, 0, 1}
AverageIdfSigns(bm25) ==
    Signs(IdfProduct(bm25, Vocabulary(bm25), TRUE),
          IdfProduct(bm25, Vocabulary(bm25), FALSE))

\* the signs the idf of a term can have; a term that is not in the corpus
\* counts 0
IdfSignsOf(bm25, n) ==
    IF n = 0 \/ 2 * n = bm25.corpus_size THEN {0}
    ELSE IF 2 * n < bm25.corpus_size THEN {1}
    ELSE AverageIdfSigns(bm25)
IdfSigns(bm25, term) == IdfSignsOf(bm25, DocCount(bm25, term))

\* some query token the document holds can have an idf of this sign
CanCount(bm25, tokens, query_tokens, sign) ==
    \E j \in 1..Len(query_tokens) :
        Holds(tokens, query_tokens[j]) /\ sign \in IdfSigns(bm25, query_tokens[j])

Abs(x) == IF x < 0 THEN 0 - x ELSE x

\* what the arithmetic of BM25Okapi gives where the signs leave it open
BM25ScoreVals == {-1, 1, 2}

\* the score of a document: its sign as the idfs fix it, its size (and its
\* sign, where idfs of both signs meet) as `given`
ScoreOf(can_be_positive, can_be_negative, given) ==
    IF can_be_positive /\ can_be_negative THEN given
    ELSE IF can_be_positive THEN Abs(given)
    ELSE IF can_be_negative THEN 0 - Abs(given)
    ELSE 0

\* BM25Okapi.get_scores(query_tokens): one score per document of the corpus
\* the structure was built from; weigh[i] is what the arithmetic gives
\* document i
get_scores(bm25, query_tokens, weigh) ==
    [i \in 1..bm25.corpus_size |->
        ScoreOf(CanCount(bm25, bm25.doc_freqs[i], query_tokens, 1),
                CanCount(bm25, bm25.doc_freqs[i], query_tokens, -1),
                weigh[i])]

\* search without the sort: the first k entries of the corpus
TopKUnsorted(corpus, scores, k) ==
    TakePositive(corpus, SliceTo([i \in 1..Len(scores) |-> i], k), scores)

\* search from the sort on
TopK(corpus, scores, k) ==
    TakePositive(corpus,
                 SliceTo(SortedDesc([i \in 1..Len(scores) |-> i], scores), k),
                 scores)

\* search from `if not query_tokens` on
SearchTokens(self, query_tokens, k, weigh) ==
    IF query_tokens = <<>> THEN <<>>
    ELSE TopK(self.corpus, get_scores(self.bm25[1], query_tokens, weigh), k)

search(self, query, k, weigh) ==
    IF ~BM25_AVAILABLE \/ self.bm25 = None \/ Len(self.corpus) = 0 THEN <<>>
    ELSE SearchTokens(self, _tokenize_korean(query), k, weigh)

----------------------------------------------------------------------------
(* bm25_index.reciprocal_rank_fusion.  doc_scores is a dict, which keeps   *)
(* its keys in the order they were first inserted: a sequence of           *)
(* [content_key, doc, score].                                              *)

\* the default of the parameter k
RRF_K == 60

\* the longest list reciprocal_rank_fusion is given
MaxRank == 4

RECURSIVE Product(_, _)
Product(a, b) == IF a > b THEN 1 ELSE a * Product(a + 1, b)

\* 1.0: every weight / (RRF_K + rank) with rank <= MaxRank is a whole number
\* of Unit-ths
Unit == Product(RRF_K + 1, RRF_K + MaxRank)

\* doc_scores after one pass of a loop
Credit(doc_scores, doc, content_key, rrf_score) ==
    IF \E i \in 1..Len(doc_scores) : doc_scores[i].content_key = content_key
    THEN [i \in 1..Len(doc_scores) |->
             IF doc_scores[i].content_key = content_key
             THEN [doc_scores[i] EXCEPT !.score = @ + rrf_score]
             ELSE doc_scores[i]]
    ELSE Append(doc_scores,
                [content_key |-> content_key, doc |-> doc, score |-> rrf_score])

\* one of the two loops, from `rank` on
RECURSIVE RankLoop(_, _, _, _, _)
RankLoop(doc_scores, results, rank, k, weight) ==
    IF results = <<>> THEN doc_scores
    ELSE RankLoop(Credit(doc_scores, Head(results)[1],
                         Prefix(Head(results)[1].page_content, PrefixLen),
                         weight * (Unit \div (k + rank))),
                  Tail(results), rank + 1, k, weight)

\* sorted(doc_scores.values(), key=lambda x: x[1], reverse=True)
SortedByScore(doc_scores, order) ==
    [i \in 1..Len(order) |->
        <<doc_scores[order[i]].doc, doc_scores[order[i]].score>>]

\* the sort of reciprocal_rank_fusion by a sort that is not stable: entries
\* with equal scores come out last first
MergedLastFirst(doc_scores) ==
    SortedByScore(doc_scores,
                  SortedDesc([i \in 1..Len(doc_scores) |-> Len(doc_scores) + 1 - i],
                             [i \in 1..Len(doc_scores) |-> doc_scores[i].score]))

Merged(doc_scores) ==
    SortedByScore(doc_scores,
                  SortedDesc([i \in 1..Len(doc_scores) |-> i],
                             [i \in 1..Len(doc_scores) |-> doc_scores[i].score]))

reciprocal_rank_fusion(vector_results, bm25_results, k, vector_weight, bm25_weight) ==
    Merged(RankLoop(RankLoop(<<>>, vector_results, 1, k, vector_weight),
                    bm25_results, 1, k, bm25_weight))

----------------------------------------------------------------------------
(* BM25IndexManager called from two threads.  The class holds no lock, so  *)
(* the interpreter may switch threads between any two statements; a step   *)
(* here runs up to and including the next statement that reads or writes   *)
(* a field of the manager.  A frame is the position and the locals of one  *)
(* call: pc names the statement that runs next.                            *)

Ran(self, frame) == [self |-> self, frame |-> frame]
Done(frame, ret) == [frame EXCEPT !.pc = "done", !.ret = Some(ret)]
Threw(frame) == [frame EXCEPT !.pc = "done", !.raised = TRUE]

\* list.pop(idx)
Pop(seq, idx) == SubSeq(seq, 1, idx - 1) \o SubSeq(seq, idx + 1, Len(seq))

\* add_documents(documents) about to run
AddFrame(documents) ==
    [method |-> "add_documents", pc |-> "for", documents |-> documents, i |-> 1,
     added |-> 0, doc_id |-> None, tokens |-> <<>>, ret |-> None, raised |-> FALSE]

\* `if doc_id in self._indexed_ids: continue`, then the tokens
AddCheck(self, f, doc, doc_id, tokens) ==
    IF doc_id \in self.indexed_ids \/ tokens = <<>>
    THEN Ran(self, [f EXCEPT !.i = @ + 1])
    ELSE Ran(self, [f EXCEPT !.pc = "corpus.append", !.doc_id = Some(doc_id),
                             !.tokens = tokens])

\* the head of the loop of add_documents
AddFor(self, f) ==
    IF ~BM25_AVAILABLE THEN Ran(self, Done(f, 0))
    ELSE IF f.i > Len(f.documents) THEN Ran(self, [f EXCEPT !.pc = "if added"])
    ELSE AddCheck(self, f, f.documents[f.i], _generate_id(f.documents[f.i]),
                  _tokenize_korean(f.documents[f.i].page_content))

\* self._corpus.append(bm25_doc)
AddCorpusAppend(self, f) ==
    Ran([self EXCEPT !.corpus =
            Append(@, BM25Document(f.doc_id[1], f.documents[f.i].page_content,
                                   f.documents[f.i].metadata, f.tokens))],
        [f EXCEPT !.pc = "tokenized_corpus.append"])

\* self._tokenized_corpus.append(tokens)
AddTokensAppend(self, f) ==
    Ran([self EXCEPT !.tokenized_corpus = Append(@, f.tokens)],
        [f EXCEPT !.pc = "indexed_ids.add"])

\* self._indexed_ids.add(doc_id); added += 1
AddIdsAdd(self, f) ==
    Ran([self EXCEPT !.indexed_ids = @ \cup {f.doc_id[1]}],
        [f EXCEPT !.pc = "for", !.i = @ + 1, !.added = @ + 1])

\* `if added > 0: self._rebuild_bm25()`
AddRebuild(self, f) ==
    IF f.added > 0 THEN Ran(_rebuild_bm25(self), [f EXCEPT !.pc = "changes_since_save"])
    ELSE Ran(self, Done(f, f.added))

\* self._changes_since_save += added, and the test of the auto save
AddCount(counted, f) ==
    IF counted.auto_save /\ counted.changes_since_save >= counted.save_interval
    THEN Ran(counted, [f EXCEPT !.pc = "save_index"])
    ELSE Ran(counted, Done(f, f.added))

\* self.save_index(), the last statement of add_documents and of
\* delete_by_source (count: what the method returns after it)
SaveStep(saved, f, count) ==
    IF saved.raised THEN Ran(saved.self, Threw(f)) ELSE Ran(saved.self, Done(f, count))

\* one step of a call of add_documents
AddDocumentsStep(self, f) ==
    CASE f.pc = "for" -> AddFor(self, f)
      [] f.pc = "corpus.append" -> AddCorpusAppend(self, f)
      [] f.pc = "tokenized_corpus.append" -> AddTokensAppend(self, f)
      [] f.pc = "indexed_ids.add" -> AddIdsAdd(self, f)
      [] f.pc = "if added" -> AddRebuild(self, f)
      [] f.pc = "changes_since_save" ->
            AddCount([self EXCEPT !.changes_since_save = @ + f.added], f)
      [] f.pc = "save_index" -> SaveStep(save_index(self, "ok"), f, f.added)

\* delete_by_source(source) about to run
DeleteFrame(source) ==
    [method |-> "delete_by_source", pc |-> "indices_to_remove", source |-> source,
     indices |-> <<>>, j |-> 1, removed |-> None, ret |-> None, raised |-> FALSE]

\* sorted(indices_to_remove, reverse=True)
Descending(indices) ==
    [j \in 1..Cardinality(indices) |->
        CHOOSE i \in indices : Cardinality({h \in indices : h > i}) = j - 1]

\* the list comprehension over self._corpus and `if not indices_to_remove`
DeleteScanned(self, f, indices_to_remove) ==
    IF indices_to_remove = {} THEN Ran(self, Done(f, 0))
    ELSE Ran(self, [f EXCEPT !.pc = "corpus.pop",
                             !.indices = Descending(indices_to_remove)])
DeleteScan(self, f) ==
    IF ~BM25_AVAILABLE THEN Ran(self, Done(f, 0))
    ELSE DeleteScanned(self, f, {i \in 1..Len(self.corpus) :
                                    self.corpus[i].metadata.source = Some(f.source)})

\* removed = self._corpus.pop(idx): IndexError past the end of the list
DeleteCorpusPop(self, f) ==
    IF f.indices[f.j] > Len(self.corpus) THEN Ran(self, Threw(f))
    ELSE Ran([self EXCEPT !.corpus = Pop(@, f.indices[f.j])],
             [f EXCEPT !.pc = "tokenized_corpus.pop",
                       !.removed = Some(self.corpus[f.indices[f.j]])])

\* self._tokenized_corpus.pop(idx)
DeleteTokensPop(self, f) ==
    IF f.indices[f.j] > Len(self.tokenized_corpus) THEN Ran(self, Threw(f))
    ELSE Ran([self EXCEPT !.tokenized_corpus = Pop(@, f.indices[f.j])],
             [f EXCEPT !.pc = "indexed_ids.discard"])

\* self._indexed_ids.discard(removed.doc_id), and the next pass of the loop
DeleteIdsDiscard(self, f) ==
    Ran([self EXCEPT !.indexed_ids = @ \ {f.removed[1].doc_id}],
        [f EXCEPT !.pc = IF f.j < Len(f.indices) THEN "corpus.pop" ELSE "if corpus",
                  !.j = @ + 1])

\* `if self._corpus: self._rebuild_bm25() else: self._bm25 = None`, and
\* `if self.auto_save`
DeleteRebuild(self, f) ==
    Ran(IF self.corpus # <<>> THEN _rebuild_bm25(self) ELSE [self EXCEPT !.bm25 = None],
        IF self.auto_save THEN [f EXCEPT !.pc = "save_index"]
        ELSE Done(f, Len(f.indices)))

\* one step of a call of delete_by_source
DeleteBySourceStep(self, f) ==
    CASE f.pc = "indices_to_remove" -> DeleteScan(self, f)
      [] f.pc = "corpus.pop" -> DeleteCorpusPop(self, f)
      [] f.pc = "tokenized_corpus.pop" -> DeleteTokensPop(self, f)
      [] f.pc = "indexed_ids.discard" -> DeleteIdsDiscard(self, f)
      [] f.pc = "if corpus" -> DeleteRebuild(self, f)
      [] f.pc = "save_index" -> SaveStep(save_index(self, "ok"), f, Len(f.indices))

\* search(query, k) about to run
SearchFrame(query, k) ==
    [method |-> "search", pc |-> "if bm25", query |-> query, k |-> k,
     scored |-> None, scores |-> <<>>, top_indices |-> <<>>, j |-> 1,
     results |-> <<>>, ret |-> None, raised |-> FALSE]

\* `if not _BM25_AVAILABLE or self._bm25 is None or self.corpus_size == 0`
\* and `if not query_tokens`
SearchGuard(self, f) ==
    IF ~BM25_AVAILABLE \/ self.bm25 = None \/ Len(self.corpus) = 0
    THEN Ran(self, Done(f, <<>>))
    ELSE IF _tokenize_korean(f.query) = <<>> THEN Ran(self, Done(f, <<>>))
    ELSE Ran(self, [f EXCEPT !.pc = "get_scores"])

\* the loop of search has its scores: scored is the structure they come from
SearchScored(f, bm25, scores) ==
    [f EXCEPT !.pc = "for", !.scored = Some(bm25), !.scores = scores,
              !.top_indices = SliceTo(SortedDesc([i \in 1..Len(scores) |-> i], scores),
                                      f.k)]

\* scores = self._bm25.get_scores(query_tokens): AttributeError when
\* self._bm25 is None by now; the arithmetic gives every document 1
SearchScores(self, f) ==
    IF self.bm25 = None THEN Ran(self, Threw(f))
    ELSE Ran(self, SearchScored(f, self.bm25[1],
                                get_scores(self.bm25[1], _tokenize_korean(f.query),
                                           [i \in 1..self.bm25[1].corpus_size |-> 1])))

\* one pass of the loop over top_indices: bm25_doc = self._corpus[idx] is
\* an IndexError past the end of the list
SearchFor(self, f) ==
    IF f.j > Len(f.top_indices) THEN Ran(self, Done(f, f.results))
    ELSE IF f.scores[f.top_indices[f.j]] <= 0 THEN Ran(self, Done(f, f.results))
    ELSE IF f.top_indices[f.j] > Len(self.corpus) THEN Ran(self, Threw(f))
    ELSE Ran(self,
             [f EXCEPT !.j = @ + 1,
                       !.results =
                           Append(@, <<Document(self.corpus[f.top_indices[f.j]].page_content,
                                                self.corpus[f.top_indices[f.j]].metadata),
                                       f.scores[f.top_indices[f.j]]>>)])

\* one step of a call of search
SearchStep(self, f) ==
    CASE f.pc = "if bm25" -> SearchGuard(self, f)
      [] f.pc = "get_scores" -> SearchScores(self, f)
      [] f.pc = "for" -> SearchFor(self, f)

----------------------------------------------------------------------------
(* text_splitter.TextSplitter.  Offsets are 0-based, as in the source.     *)

\* str.split(sep) for a non-empty sep: hits are the places where sep occurs
RECURSIVE Split(_, _)
SplitAtFirst(text, sep, hits) ==
    IF hits = {} THEN <<text>>
    ELSE <<SubSeq(text, 1, SetMin(hits) - 1)>>
         \o Split(SubSeq(text, SetMin(hits) + Len(sep), Len(text)), sep)
Split(text, sep) ==
    SplitAtFirst(text, sep,
                 {i \in 1..(Len(text) - Len(sep) + 1) : StartsWithAt(text, i, sep)})

\* str.find(sub, start): a negative start counts from the end
FirstAt(hits) == IF hits = {} THEN -1 ELSE SetMin(hits) - 1
FindFrom(text, sub, from) ==
    FirstAt({i \in (from + 1)..(Len(text) - Len(sub) + 1) : StartsWithAt(text, i, sub)})
Find(text, sub, start) ==
    FindFrom(text, sub, IF start < 0 THEN Max(Len(text) + start, 0) ELSE start)

\* TextSplitter.__init__: the default separators
DefaultSeparators == << <<"\n", "\n">>, <<"\n">>, <<".", " ">>, <<" ">> >>

\* the while loop of _split_by_length, from `start` on
RECURSIVE LengthLoop(_, _, _, _)
LengthChunk(text, start, end, chunk_size, chunk_overlap) ==
    <<SubSeq(text, start + 1, end)>>
    \o LengthLoop(text, IF end < Len(text) THEN end - chunk_overlap ELSE end,
                  chunk_size, chunk_overlap)
LengthLoop(text, start, chunk_size, chunk_overlap) ==
    IF start < Len(text)
    THEN LengthChunk(text, start, Min(start + chunk_size, Len(text)),
                     chunk_size, chunk_overlap)
    ELSE <<>>

_split_by_length(text, chunk_size, chunk_overlap) ==
    LengthLoop(text, 0, chunk_size, chunk_overlap)

RECURSIVE _split_recursive(_, _, _, _)
\* the body of the loop of _split_recursive over parts
PartChunks(part, remaining_separators, chunk_size, chunk_overlap) ==
    IF Len(part) <= chunk_size
    THEN (IF Strip(part) # <<>> THEN <<part>> ELSE <<>>)
    ELSE _split_recursive(part, remaining_separators, chunk_size, chunk_overlap)
SplitParts(parts, remaining_separators, chunk_size, chunk_overlap) ==
    Concat([p \in 1..Len(parts) |->
               PartChunks(parts[p], remaining_separators, chunk_size, chunk_overlap)])
_split_recursive(text, separators, chunk_size, chunk_overlap) ==
    IF separators = <<>> THEN _split_by_length(text, chunk_size, chunk_overlap)
    ELSE SplitParts(Split(text, Head(separators)), Tail(separators),
                    chunk_size, chunk_overlap)

\* merged.append(current_chunk.strip()) under `if current_chunk.strip()`
AppendStripped(merged, stripped) ==
    IF stripped # <<>> THEN Append(merged, stripped) ELSE merged

\* the loop of _merge_chunks and what follows it
RECURSIVE MergeLoop(_, _, _, _)
MergeLoop(merged, current_chunk, chunks, chunk_size) ==
    IF chunks = <<>> THEN AppendStripped(merged, Strip(current_chunk))
    ELSE IF Len(current_chunk) + Len(Head(chunks)) + 1 <= chunk_size
    THEN MergeLoop(merged, current_chunk \o <<"\n">> \o Head(chunks),
                   Tail(chunks), chunk_size)
    ELSE MergeLoop(AppendStripped(merged, Strip(current_chunk)),
                   Head(chunks), Tail(chunks), chunk_size)

\* _merge_chunks without the size test: every chunk is merged into the one
\* before it
MergeAll(chunks, chunk_size) ==
    IF chunks = <<>> THEN <<>>
    ELSE AppendStripped(<<>>, Strip(Head(chunks)
             \o Concat([i \in 1..Len(Tail(chunks)) |-> <<"\n">> \o Tail(chunks)[i]])))

_merge_chunks(chunks, chunk_size) ==
    IF chunks = <<>> THEN <<>>
    ELSE MergeLoop(<<>>, Head(chunks), Tail(chunks), chunk_size)

TextChunk(content, chunk_index, start_char, end_char, metadata) ==
    [content |-> content, chunk_index |-> chunk_index, start_char |-> start_char,
     end_char |-> end_char, metadata |-> metadata]

\* {**metadata, "chunk_index": i, "total_chunks": n}
ChunkMeta(metadata, i, n) ==
    [source |-> metadata.source, page_num |-> metadata.page_num,
     chunk_index |-> Some(i), total_chunks |-> Some(n)]

\* the loop of split_text over merged_chunks, from the chunk of index i on
RECURSIVE ChunkLoop(_, _, _, _, _, _)
ChunkFound(text, metadata, merged_chunks, i, found, current_pos, chunk_overlap) ==
    <<TextChunk(merged_chunks[i + 1], i,
                IF found = -1 THEN current_pos ELSE found,
                (IF found = -1 THEN current_pos ELSE found) + Len(merged_chunks[i + 1]),
                ChunkMeta(metadata, i, Len(merged_chunks)))>>
    \o ChunkLoop(text, metadata, merged_chunks, i + 1,
                 (IF found = -1 THEN current_pos ELSE found)
                     + Len(merged_chunks[i + 1]) - chunk_overlap,
                 chunk_overlap)
ChunkLoop(text, metadata, merged_chunks, i, current_pos, chunk_overlap) ==
    IF i >= Len(merged_chunks) THEN <<>>
    ELSE ChunkFound(text, metadata, merged_chunks, i,
                    Find(text, merged_chunks[i + 1], current_pos),
                    current_pos, chunk_overlap)

split_text(text, metadata, chunk_size, chunk_overlap, separators) ==
    IF Strip(text) = <<>> THEN <<>>
    ELSE ChunkLoop(text, metadata,
                   _merge_chunks(_split_recursive(text, separators, chunk_size,
                                                  chunk_overlap), chunk_size),
                   0, 0, chunk_overlap)

----------------------------------------------------------------------------
(* vector_store.VectorStoreManager.  The Chroma collection text_store is   *)
(* the sequence of the documents written to it (Chroma gives every text a  *)
(* fresh id, so the same text can be in it several times).  What the       *)
(* embedding model makes of a text is an input: distance[content] is the   *)
(* distance of the text from the query.                                    *)

\* what a call into Chroma can do
StoreOutcomes == {"ok", "raises"}

\* VectorStoreManager.add_texts
vector_store_add_texts(store, texts, metadatas) ==
    store \o [i \in 1..Len(texts) |->
                 Document(texts[i],
                          IF metadatas # None THEN metadatas[1][i] ELSE EmptyDict)]

\* Chroma.similarity_search_with_score: the k nearest, nearest first
NearestFirst(store, order, distance) ==
    [i \in 1..Len(order) |-> <<store[order[i]], distance[store[order[i]].page_content]>>]

similarity_search_with_score(store, k, distance) ==
    NearestFirst(store,
                 SliceTo(SortedDesc([i \in 1..Len(store) |-> i],
                                    [i \in 1..Len(store) |->
                                        0 - distance[store[i].page_content]]),
                         Max(k, 0)),
                 distance)

\* [(doc, score) for doc, score in results if score <= score_threshold]
RECURSIVE Filter(_, _)
Filter(results, score_threshold) ==
    IF results = <<>> THEN <<>>
    ELSE (IF Head(results)[2] <= score_threshold THEN <<Head(results)>> ELSE <<>>)
         \o Filter(Tail(results), score_threshold)

search_with_scores(store, k, score_threshold, distance) ==
    IF score_threshold # None
    THEN Filter(similarity_search_with_score(store, k, distance), score_threshold[1])
    ELSE similarity_search_with_score(store, k, distance)

\* the entries whose metadata source is not `source`
RECURSIVE NotOfSource(_, _)
NotOfSource(store, source) ==
    IF store = <<>> THEN <<>>
    ELSE (IF Head(store).metadata.source = Some(source) THEN <<>> ELSE <<Head(store)>>)
         \o NotOfSource(Tail(store), source)

\* VectorStoreManager.delete_by_source: [store, ret]
vector_store_delete_by_source(store, source, chroma) ==
    IF chroma = "raises" THEN [store |-> store, ret |-> FALSE]
    ELSE [store |-> NotOfSource(store, source), ret |-> TRUE]

----------------------------------------------------------------------------
(* reranker.Qwen3Reranker.  The model is an input: oracle.outcome says     *)
(* whether load and the scoring succeed, oracle.score[content] is the      *)
(* score the model gives a document for the query.                         *)

RerankResult(content, score, original_index) ==
    [content |-> content, score |-> score, original_index |-> original_index]

\* the results numbered by their place after the sort
SortedResultsRenumbered(documents, all_scores, order) ==
    [i \in 1..Len(order) |->
        RerankResult(documents[order[i]], all_scores[order[i]], i - 1)]

\* results.sort(key=lambda x: x.score, reverse=True) on the results in the
\* order of documents
SortedResults(documents, all_scores, order) ==
    [i \in 1..Len(order) |->
        RerankResult(documents[order[i]], all_scores[order[i]], order[i] - 1)]

\* rerank from the scoring on, without `results = results[:top_k]`
ScoredUncut(documents, all_scores, top_k) ==
    [raised |-> FALSE,
     results |-> SortedResults(documents, all_scores,
                     SortedDesc([i \in 1..Len(documents) |-> i], all_scores))]

\* rerank from the scoring on
Scored(documents, all_scores, top_k) ==
    [raised |-> FALSE,
     results |->
        IF top_k # None
        THEN SliceTo(SortedResults(documents, all_scores,
                         SortedDesc([i \in 1..Len(documents) |-> i], all_scores)),
                     top_k[1])
        ELSE SortedResults(documents, all_scores,
                 SortedDesc([i \in 1..Len(documents) |-> i], all_scores))]

\* batch_size of rerank when the caller gives none
DefaultBatchSize == 8

\* pairs[i:i + batch_size] for i in range(0, len(pairs), batch_size), i
\* counted from 0
RECURSIVE Batches(_, _, _)
Batches(pairs, i, batch_size) ==
    IF i >= Len(pairs) THEN <<>>
    ELSE <<SubSeq(pairs, i + 1, Min(i + batch_size, Len(pairs)))>>
         \o Batches(pairs, i + batch_size, batch_size)

\* _compute_logits on one batch: a score per pair, in the order of the batch
_compute_logits(batch_pairs, oracle) ==
    [j \in 1..Len(batch_pairs) |-> oracle.score[batch_pairs[j]]]

\* all_scores after the loop over the batches
AllScores(batches, oracle) ==
    Concat([b \in 1..Len(batches) |-> _compute_logits(batches[b], oracle)])

\* rerank called with batch_size
RerankInBatches(documents, top_k, batch_size, oracle) ==
    IF oracle.outcome = "load_fails" THEN [raised |-> TRUE, results |-> <<>>]
    ELSE IF documents = <<>> THEN [raised |-> FALSE, results |-> <<>>]
    ELSE IF oracle.outcome = "scoring_fails" THEN [raised |-> TRUE, results |-> <<>>]
    ELSE Scored(documents, AllScores(Batches(documents, 0, batch_size), oracle), top_k)

rerank(documents, top_k, oracle) ==
    RerankInBatches(documents, top_k, DefaultBatchSize, oracle)

----------------------------------------------------------------------------
(* retriever.RAGRetriever.  rag is [text_store, bm25_index, config]; a     *)
(* method gives rag after the call and out, what the caller sees.          *)

RetrievalResult(query, text_results, combined_context, is_reranked, scores) ==
    [query |-> query, text_results |-> text_results,
     combined_context |-> combined_context, is_reranked |-> is_reranked,
     scores |-> scores]

\* the text of combined_context when nothing matched
NoMatchContext == [header |-> "no_match", parts |-> <<>>]

\* _build_context and _build_context_with_scores: the header line and, per
\* document, its number, source and page (a missing page is printed as "?");
\* the content and the relevance figure that follow are left out
BuildContext(header, text_results) ==
    IF text_results = <<>> THEN [header |-> "", parts |-> <<>>]
    ELSE [header |-> header,
          parts |-> [i \in 1..Len(text_results) |->
                        [number |-> i,
                         source |-> Get(text_results[i].metadata, "source", "unknown"),
                         page |-> text_results[i].metadata.page_num]]]

_build_context(text_results) == BuildContext("documents", text_results)

_build_context_with_scores(text_results, scores) ==
    BuildContext("documents_reranked", text_results)

\* min(x * c, cap), formed without a product above cap
MinTimes(x, c, cap) == IF x >= (cap + c - 1) \div c THEN cap ELSE x * c

\* [(doc, 1.0 - min(rrf_score * 100, 1.0)) for doc, rrf_score in merged_results]
AsDistances(merged_results) ==
    [i \in 1..Len(merged_results) |->
        <<merged_results[i][1], Unit - MinTimes(merged_results[i][2], 100, Unit)>>]

\* retrieve, lines 337-355: the fusion of the two lists
Fused(rag, search_k, vector_results, bm25_results) ==
    IF bm25_results # <<>>
    THEN AsDistances(SliceTo(reciprocal_rank_fusion(vector_results, bm25_results, RRF_K,
                                                    rag.config.vector_weight,
                                                    rag.config.bm25_weight),
                             search_k))
    ELSE vector_results

\* the lexical search of retrieve made whatever use_hybrid is
LexicalResultsAlways(rag, query, search_k, weigh) ==
    IF BM25_AVAILABLE /\ Len(rag.bm25_index.corpus) > 0
    THEN search(rag.bm25_index, query, search_k, weigh)
    ELSE <<>>

\* retrieve, lines 332-334: the lexical search, when it is made
LexicalResults(rag, query, search_k, weigh) ==
    IF rag.config.use_hybrid /\ BM25_AVAILABLE /\ Len(rag.bm25_index.corpus) > 0
    THEN search(rag.bm25_index, query, search_k, weigh)
    ELSE <<>>

\* vector_results at line 357: the candidate pool
CandidatePool(rag, query, search_k, env) ==
    Fused(rag, search_k,
          search_with_scores(rag.text_store, search_k, None, env.distance),
          LexicalResults(rag, query, search_k, env.weigh))

RetrieveRaised(reranker_called) ==
    [raised |-> TRUE, ret |-> None, reranker_called |-> reranker_called]

RetrieveReturned(result, reranker_called) ==
    [raised |-> FALSE, ret |-> Some(result), reranker_called |-> reranker_called]

\* retrieve, lines 385-404
RerankedResult(query, vector_results, rerank_results) ==
    IF rerank_results.raised THEN RetrieveRaised(TRUE)
    ELSE RetrieveReturned(
             RetrievalResult(query,
                 [i \in 1..Len(rerank_results.results) |->
                     vector_results[rerank_results.results[i].original_index + 1][1]],
                 _build_context_with_scores(
                     [i \in 1..Len(rerank_results.results) |->
                         vector_results[rerank_results.results[i].original_index + 1][1]],
                     [i \in 1..Len(rerank_results.results) |->
                         rerank_results.results[i].score]),
                 TRUE,
                 [i \in 1..Len(rerank_results.results) |->
                     rerank_results.results[i].score]),
             TRUE)

\* retrieve, lines 406-420: top is vector_results[:final_k]
TruncatedResult(query, top) ==
    RetrieveReturned(
        RetrievalResult(query,
            [i \in 1..Len(top) |-> top[i][1]],
            _build_context([i \in 1..Len(top) |-> top[i][1]]),
            FALSE,
            [i \in 1..Len(top) |-> Unit - top[i][2]]),
        FALSE)

\* retrieve, lines 367-420, without the `if not vector_results` return
RankedUnguarded(query, final_k, should_rerank, vector_results, oracle) ==
    IF should_rerank /\ Len(vector_results) > 0
    THEN RerankedResult(query, vector_results,
             rerank([i \in 1..Len(vector_results) |-> vector_results[i][1].page_content],
                    Some(final_k), oracle))
    ELSE TruncatedResult(query, SliceTo(vector_results, final_k))

\* retrieve, lines 357-420
Ranked(query, final_k, should_rerank, vector_results, oracle) ==
    IF vector_results = <<>>
    THEN RetrieveReturned(RetrievalResult(query, <<>>, NoMatchContext, FALSE, <<>>),
                          FALSE)
    ELSE IF should_rerank /\ Len(vector_results) > 0
    THEN RerankedResult(query, vector_results,
             rerank([i \in 1..Len(vector_results) |-> vector_results[i][1].page_content],
                    Some(final_k), oracle))
    ELSE TruncatedResult(query, SliceTo(vector_results, final_k))

\* retrieve, lines 319-420
Searched(rag, query, final_k, should_rerank, search_k, env) ==
    IF env.chroma = "raises" THEN RetrieveRaised(FALSE)
    ELSE Ranked(query, final_k, should_rerank,
                CandidatePool(rag, query, search_k, env), env.reranker)

FinalK(rag, k) == IF k # None THEN k[1] ELSE rag.config.rerank_top_k

ShouldRerank(rag, use_reranker) ==
    IF use_reranker # None THEN use_reranker[1] ELSE rag.config.use_reranker

SearchK(rag, k, use_reranker) ==
    IF ShouldRerank(rag, use_reranker) THEN rag.config.retrieval_k ELSE FinalK(rag, k)

retrieve(rag, query, k, use_reranker, env) ==
    Searched(rag, query, FinalK(rag, k), ShouldRerank(rag, use_reranker),
             SearchK(rag, k, use_reranker), env)

\* TextSplitter(chunk_size=1000, chunk_overlap=200) of index_text
ChunkSize == 1000
ChunkOverlap == 200

\* [chunk["text"] for chunk in chunks]: a TextChunk is a dataclass instance
\* and defines no __getitem__, so the first chunk raises TypeError
SubscriptRaises(chunks) == chunks # <<>>

IndexReturned(rag, success, chunks_added) ==
    [rag |-> rag,
     out |-> [raised |-> FALSE,
              ret |-> [success |-> success, chunks_added |-> chunks_added]]]

\* index_text after bm25_index.add_texts
AfterLexicalWrite(rag, added, chunks_added) ==
    IF added.raised
    THEN IndexReturned([rag EXCEPT !.bm25_index = added.self], FALSE, 0)
    ELSE IndexReturned([rag EXCEPT !.bm25_index = added.self], TRUE, chunks_added)

\* index_text after vector_store.add_texts
LexicalWrite(rag, texts, metadatas, io) ==
    IF rag.config.use_hybrid
    THEN AfterLexicalWrite(rag, add_texts(rag.bm25_index, texts, Some(metadatas), io),
                           Len(texts))
    ELSE IndexReturned(rag, TRUE, Len(texts))

\* index_text from vector_store.add_texts on
WriteTexts(rag, texts, metadatas, chroma, io) ==
    IF chroma = "raises" THEN IndexReturned(rag, FALSE, 0)
    ELSE LexicalWrite([rag EXCEPT !.text_store =
                          vector_store_add_texts(@, texts, Some(metadatas))],
                      texts, metadatas, io)

\* index_text, lines 251-270
IndexChunks(rag, chunks, chroma, io) ==
    IF SubscriptRaises(chunks) THEN IndexReturned(rag, FALSE, 0)
    ELSE WriteTexts(rag, <<>>, <<>>, chroma, io)

\* metadata or {}
OrEmptyDict(metadata) == IF metadata = None THEN EmptyDict ELSE metadata[1]

index_text(rag, text, metadata, chunk_text, chroma, io) ==
    IF chunk_text
    THEN IndexChunks(rag, split_text(text, OrEmptyDict(metadata), ChunkSize,
                                     ChunkOverlap, DefaultSeparators),
                     chroma, io)
    ELSE WriteTexts(rag, <<text>>, <<OrEmptyDict(metadata)>>, chroma, io)

\* delete_document, line 558
VectorDelete(rag, deleted) ==
    [rag |-> [rag EXCEPT !.text_store = deleted.store],
     out |-> [raised |-> FALSE, ret |-> Some(deleted.ret)]]

\* delete_document after bm25_index.delete_by_source
AfterLexicalDelete(rag, deleted, source, chroma) ==
    IF deleted.raised
    THEN [rag |-> [rag EXCEPT !.bm25_index = deleted.self],
          out |-> [raised |-> TRUE, ret |-> None]]
    ELSE VectorDelete([rag EXCEPT !.bm25_index = deleted.self],
                      vector_store_delete_by_source(rag.text_store, source, chroma))

delete_document(rag, source, chroma, io) ==
    IF rag.config.use_hybrid
    THEN AfterLexicalDelete(rag, delete_by_source(rag.bm25_index, source, io),
                            source, chroma)
    ELSE VectorDelete(rag, vector_store_delete_by_source(rag.text_store, source, chroma))

\* `if x is not None: self.x = x`
Updated(old, new) == IF new # None THEN new[1] ELSE old

set_retrieval_config(rag, retrieval_k, rerank_top_k, use_reranker, use_hybrid, bm25_weight, vector_weight) ==
    [rag EXCEPT !.config =
        [retrieval_k |-> Updated(@.retrieval_k, retrieval_k),
         rerank_top_k |-> Updated(@.rerank_top_k, rerank_top_k),
         use_reranker |-> Updated(@.use_reranker, use_reranker),
         use_hybrid |-> Updated(@.use_hybrid, use_hybrid),
         bm25_weight |-> Updated(@.bm25_weight, bm25_weight),
         vector_weight |-> Updated(@.vector_weight, vector_weight)]]

\* RAGRetriever.__init__ with its default settings, on an empty collection
\* and no index file; use_hybrid is the argument of that name
RAGRetriever(use_hybrid) ==
    [text_store |-> <<>>,
     bm25_index |-> BM25IndexManager(TRUE, DefaultSaveInterval),
     config |-> [retrieval_k |-> 20, rerank_top_k |-> 3, use_reranker |-> TRUE,
                 use_hybrid |-> use_hybrid /\ BM25_AVAILABLE,
                 bm25_weight |-> 1, vector_weight |-> 1]]


----------------------------------------------------------------------------
(* document_loader.DocumentLoader and RAGRetriever.index_document.  A file *)
(* is [source, ext, readable, texts]: its path, the extension of the path,  *)
(* whether it can be opened and read, and the texts in it (one per page    *)
(* as PyMuPDF gives them, or the content of a text file).                  *)

OcrExtensions == {".pdf", ".png", ".jpg", ".jpeg", ".tiff", ".bmp"}

ProcessedPage(page_num, content) == [page_num |-> page_num, content |-> content]

ProcessedDocument(source, pages) ==
    [source |-> source, total_pages |-> Len(pages), pages |-> pages]

Loaded(doc) == [raised |-> FALSE, doc |-> Some(doc)]
LoadRaised == [raised |-> TRUE, doc |-> None]

\* _convert_ocr_to_processed on the pages process_file gives (page_num from 1)
_convert_ocr_to_processed(source, texts) ==
    ProcessedDocument(source, [i \in 1..Len(texts) |-> ProcessedPage(i, texts[i])])

\* DocumentLoader.load.  _load_text and _load_markdown pass
\* image_page_count=0 to ProcessedDocument, a dataclass without that field,
\* which raises TypeError; any other extension raises ValueError
load(file) ==
    IF file.ext \in OcrExtensions
    THEN (IF ~file.readable THEN LoadRaised
          ELSE Loaded(_convert_ocr_to_processed(file.source, file.texts)))
    ELSE LoadRaised

\* {**base, **over}
Merge(base, over) ==
    [source |-> IF over.source # None THEN over.source ELSE base.source,
     page_num |-> IF over.page_num # None THEN over.page_num ELSE base.page_num]

\* base_metadata of a page: source and page_num, then doc_metadata (the
\* content type and the page's own metadata hold neither key)
BaseMetadata(source, page, doc_metadata) ==
    Merge(Meta(Some(source), Some(page.page_num)), doc_metadata)

\* Document(page_content=chunk.content, metadata={**base_metadata,
\* **chunk.metadata}) for each chunk
ChunkDocs(chunks) ==
    [i \in 1..Len(chunks) |-> Document(chunks[i].content, chunks[i].metadata)]

\* the documents VectorStoreManager.add_document makes of one page
PageDocs(source, page, doc_metadata, chunk_text) ==
    IF Strip(page.content) = <<>> THEN <<>>
    ELSE IF chunk_text
    THEN ChunkDocs(split_text(page.content,
                              BaseMetadata(source, page, doc_metadata),
                              ChunkSize, ChunkOverlap, DefaultSeparators))
    ELSE <<Document(page.content, BaseMetadata(source, page, doc_metadata))>>

\* text_docs of VectorStoreManager.add_document
TextDocs(processed_doc, doc_metadata, chunk_text) ==
    Concat([p \in 1..Len(processed_doc.pages) |->
               PageDocs(processed_doc.source, processed_doc.pages[p], doc_metadata,
                        chunk_text)])

\* bm25_docs of index_document
Bm25Docs(processed_doc, metadata) ==
    Concat([p \in 1..Len(processed_doc.pages) |->
               IF Strip(processed_doc.pages[p].content) = <<>> THEN <<>>
               ELSE <<Document(processed_doc.pages[p].content,
                               BaseMetadata(processed_doc.source,
                                            processed_doc.pages[p], metadata))>>])

DocumentRaised(rag) == [rag |-> rag, out |-> [raised |-> TRUE, ret |-> None]]

\* the summary VectorStoreManager.add_document returns
DocumentReturned(rag, processed_doc, text_chunks_saved) ==
    [rag |-> rag,
     out |-> [raised |-> FALSE,
              ret |-> [source |-> processed_doc.source,
                       total_pages |-> processed_doc.total_pages,
                       text_chunks_saved |-> text_chunks_saved]]]

\* index_document after bm25_index.add_documents
AfterLexicalAdd(rag, added, processed_doc, text_chunks_saved) ==
    IF added.raised THEN DocumentRaised([rag EXCEPT !.bm25_index = added.self])
    ELSE DocumentReturned([rag EXCEPT !.bm25_index = added.self], processed_doc,
                          text_chunks_saved)

\* index_document, lines 166-183
LexicalAdd(rag, processed_doc, bm25_docs, text_chunks_saved, io) ==
    IF rag.config.use_hybrid /\ bm25_docs # <<>>
    THEN AfterLexicalAdd(rag, add_documents(rag.bm25_index, bm25_docs, io),
                         processed_doc, text_chunks_saved)
    ELSE DocumentReturned(rag, processed_doc, text_chunks_saved)

\* index_document from vector_store.add_document on
AddDocument(rag, processed_doc, text_docs, metadata, chroma, io) ==
    IF text_docs # <<>> /\ chroma = "raises" THEN DocumentRaised(rag)
    ELSE LexicalAdd([rag EXCEPT !.text_store = @ \o text_docs], processed_doc,
                    Bm25Docs(processed_doc, OrEmptyDict(metadata)),
                    Len(text_docs), io)

\* index_document after document_loader.load
IndexLoaded(rag, loaded, metadata, chunk_text, chroma, io) ==
    IF loaded.raised THEN DocumentRaised(rag)
    ELSE AddDocument(rag, loaded.doc[1],
                     TextDocs(loaded.doc[1], OrEmptyDict(metadata), chunk_text),
                     metadata, chroma, io)

index_document(rag, file, metadata, chunk_text, chroma, io) ==
    IndexLoaded(rag, load(file), metadata, chunk_text, chroma, io)
----------------------------------------------------------------------------
(* Texts and metadata the calls are made with *)

\* "PER 12.5<bae>": tokens "12.5<bae>", "per"
TextPER == <<"P", "E", "R", " ", "1", "2", ".", "5", "bae">>
\* "<mae><chul> 30%": tokens "30%", "<mae><chul>"
TextSales == <<"mae", "chul", " ", "3", "0", "%">>
\* "ROE 5%": tokens "5%", "roe"
TextROE == <<"R", "O", "E", " ", "5", "%">>
\* "<ga> 1": no token
TextNoToken == <<"ga", " ", "1">>
\* two texts with the same first PrefixLen characters and different tails
TextLongA == <<"r", "o", "e">> \o Rep(" ", PrefixLen - 3) \o <<"p", "e", "r">>
TextLongB == <<"r", "o", "e">> \o Rep(" ", PrefixLen - 3) \o <<"p", "b", "r">>

\* "per <mae><chul>": a token of TextPER and a token of TextSales
QueryBoth == <<"p", "e", "r", " ", "mae", "chul">>
\* "<ga>": no token
QueryNoToken == <<"ga">>

SeqsUpTo(S, n) == UNION {[1..m -> S] : m \in 0..n}

SetSelf(self) ==
    /\ _corpus' = self.corpus
    /\ _tokenized_corpus' = self.tokenized_corpus
    /\ _bm25' = self.bm25
    /\ _indexed_ids' = self.indexed_ids
    /\ _changes_since_save' = self.changes_since_save
    /\ persist_file' = self.file

Rag == [text_store |-> text_store, bm25_index |-> Self, config |-> config]

SetRag(rag) ==
    /\ SetSelf(rag.bm25_index)
    /\ text_store' = rag.text_store
    /\ config' = rag.config

\* the engine right after RAGRetriever.__init__, or as a script of calls left it
InitRag(rag) ==
    /\ _corpus = rag.bm25_index.corpus
    /\ _tokenized_corpus = rag.bm25_index.tokenized_corpus
    /\ _bm25 = rag.bm25_index.bm25
    /\ _indexed_ids = rag.bm25_index.indexed_ids
    /\ _changes_since_save = rag.bm25_index.changes_since_save
    /\ auto_save = rag.bm25_index.auto_save
    /\ save_interval = rag.bm25_index.save_interval
    /\ persist_file = rag.bm25_index.file
    /\ text_store = rag.text_store
    /\ config = rag.config

----------------------------------------------------------------------------
(* SpecBM25: one BM25IndexManager, called by its owner.  last is the call  *)
(* that was made last: its size and what it returned.                      *)

\* the documents add_documents is called with
DocPool == {Document(TextPER, Meta(Some("s1"), Some(1))),
            Document(TextSales, Meta(Some("s2"), None))}

\* the longest batch of one call
MaxBatch == 2

\* save_interval of the manager under test (the default, 50, is not reached
\* by a corpus of this size)
SmallSaveInterval == 2

\* BM25IndexManager(persist_path, auto_save, save_interval) on a path that
\* holds no file; the engine around it is idle
InitBM25 ==
    /\ BM25_AVAILABLE \in BOOLEAN
    /\ \E a \in BOOLEAN :
          InitRag([RAGRetriever(TRUE) EXCEPT
                      !.bm25_index = BM25IndexManager(a, SmallSaveInterval)])
    /\ deleted_sources = {}
    /\ threads = <<>>
    /\ last = [op |-> "init"]

\* the calls stop once _changes_since_save has reached MaxChanges (it grows
\* without bound when nothing is saved)
MaxChanges == 3

\* the end of a call of the manager: what it was offered (the number of
\* documents, or the source), what the file system did and what came back
ManagerReturn(op, offered, io, r) ==
    /\ SetSelf(r.self)
    /\ last' = [op |-> op, offered |-> offered, io |-> io, ret |-> r.ret,
                raised |-> r.raised]
    /\ UNCHANGED <<BM25_AVAILABLE, auto_save, save_interval, text_store, config,
                   deleted_sources, threads>>

AddDocuments ==
    \E documents \in SeqsUpTo(DocPool, MaxBatch), io \in IOOutcomes :
        /\ _changes_since_save < MaxChanges
        /\ ManagerReturn("add_documents", Len(documents), io,
                         add_documents(Self, documents, io))

\* the texts and the metadata add_texts is called with
TextPool == {TextPER, TextNoToken}
MetaPool == {Meta(Some("s1"), Some(1))}

\* metadatas is None or a list, which may be shorter than texts; the save
\* that add_texts reaches through add_documents succeeds (AddDocuments has
\* the saves that fail)
AddTexts ==
    \E texts \in SeqsUpTo(TextPool, MaxBatch),
       metadatas \in {None} \cup {Some(<<m>>) : m \in MetaPool},
       io \in {"ok"} :
        /\ _changes_since_save < MaxChanges
        /\ ManagerReturn("add_texts", Len(texts), io,
                         add_texts(Self, texts, metadatas, io))

SourcePool == {"s1", "s2"}

DeleteBySource ==
    \E source \in SourcePool, io \in IOOutcomes :
        ManagerReturn("delete_by_source", source, io,
                      delete_by_source(Self, source, io))

Clear == ManagerReturn("clear", 0, "ok", clear(Self))

\* the owner drops the manager and constructs one on the same persist_path
\* with the same arguments: __init__ runs _load_index
Load ==
    ManagerReturn("load", 0, "ok",
                  Returned(Reopened(auto_save, save_interval, persist_file), None))

NextBM25 == AddDocuments \/ AddTexts \/ DeleteBySource \/ Clear \/ Load

SpecBM25 == InitBM25 /\ [][NextBM25]_vars

----------------------------------------------------------------------------
(* SpecRRF: reciprocal_rank_fusion as a function.  last is the call, then  *)
(* the call with what it returned.                                         *)

\* the documents of the two lists; the scores of the lists are not read
RRFDocs == {Document(TextPER, EmptyDict), Document(TextLongA, EmptyDict),
            Document(TextLongB, EmptyDict)}
RRFResults == {<<doc, 0>> : doc \in RRFDocs}

\* the longest lexical list
MaxLexical == 1

Weights == {1, 2}

RRFCalls ==
    {[op |-> "call", name |-> "reciprocal_rank_fusion",
      vector_results |-> v, bm25_results |-> b, k |-> RRF_K,
      vector_weight |-> vw, bm25_weight |-> bw] :
        v \in SeqsUpTo(RRFResults, MaxRank), b \in SeqsUpTo(RRFResults, MaxLexical),
        vw \in Weights, bw \in Weights}

InitRRF ==
    /\ BM25_AVAILABLE = TRUE
    /\ InitRag(RAGRetriever(TRUE))
    /\ deleted_sources = {}
    /\ threads = <<>>
    /\ last \in RRFCalls

ReciprocalRankFusion ==
    /\ last.op = "call"
    /\ last.name = "reciprocal_rank_fusion"
    /\ last' = [op |-> "return", call |-> last,
                out |-> reciprocal_rank_fusion(last.vector_results, last.bm25_results,
                                               last.k, last.vector_weight,
                                               last.bm25_weight)]
    /\ UNCHANGED <<BM25_AVAILABLE, bm25_vars, auto_save, save_interval, text_store,
                   config, deleted_sources, threads>>

NextRRF == ReciprocalRankFusion

SpecRRF == InitRRF /\ [][NextRRF]_vars

----------------------------------------------------------------------------
(* The engine and its caller.  last is the caller's place: a call it has   *)
(* made (with what Chroma, BM25Okapi, the embedding model and the reranker *)
(* model will answer during the call), or the call with what it got back.  *)

\* the texts index_text is called with, each with its metadata
IndexPool == {[text |-> TextPER, metadata |-> Some(Meta(Some("s1"), None))],
              [text |-> TextSales, metadata |-> None],
              [text |-> TextROE, metadata |-> Some(Meta(Some("s2"), None))]}

IndexedTexts == {d.text : d \in IndexPool}

\* the most documents the collection is given
MaxStore == 3

RerankOracles(scores) ==
    {[outcome |-> o, score |-> [t \in IndexedTexts |-> 0]] :
        o \in {"load_fails", "scoring_fails"}}
    \cup {[outcome |-> "ok", score |-> f] : f \in scores}

Env(chroma, distance, weigh, reranker) ==
    [chroma |-> chroma, distance |-> distance, weigh |-> weigh, reranker |-> reranker]

RetrieveCalls(queries, ks, use_rerankers, envs) ==
    {[op |-> "call", name |-> "retrieve", query |-> q, k |-> k,
      use_reranker |-> u, env |-> e] :
        q \in queries, k \in ks, u \in use_rerankers, e \in envs}

\* the embedding model puts one text nearer to the query than the others
Nearest(text) == [t \in IndexedTexts |-> IF t = text THEN Unit \div 3 ELSE Unit \div 2]
PERNearer == Nearest(TextPER)

\* Chroma's default space is the squared L2 distance, which has no upper
\* bound: one text lies at 1.5 from the query
Far(text) ==
    [t \in IndexedTexts |-> IF t = text THEN Unit + Unit \div 2 ELSE Unit \div 2]

\* the reranker model prefers one text to the others
Prefers(text) == [t \in IndexedTexts |-> IF t = text THEN Unit \div 2 ELSE Unit \div 3]
SalesBetter == Prefers(TextSales)

\* what the arithmetic of BM25Okapi gives the documents of the corpus: the
\* same to all, or another value to one of them
WeighPool ==
    {[i \in 1..Cardinality(IndexPool) |-> IF i = j THEN v ELSE 1] :
        j \in 1..Cardinality(IndexPool), v \in BM25ScoreVals}

\* the save of add_documents is not reached before save_interval additions,
\* so index_text is called with one outcome of it
IndexTextCalls ==
    {[op |-> "call", name |-> "index_text", text |-> d.text, metadata |-> d.metadata,
      chunk_text |-> c, chroma |-> v, io |-> "ok"] :
        d \in IndexPool, c \in BOOLEAN, v \in StoreOutcomes}

DeleteDocumentCalls ==
    {[op |-> "call", name |-> "delete_document", source |-> "s1",
      chroma |-> v, io |-> o] : v \in StoreOutcomes, o \in IOOutcomes}

OptionalBooleans == {None, Some(TRUE), Some(FALSE)}

SetRetrievalConfigCalls ==
    {[op |-> "call", name |-> "set_retrieval_config",
      use_reranker |-> r, use_hybrid |-> h] :
        r \in OptionalBooleans, h \in OptionalBooleans}

\* the calls of retrieve the caller of Spec makes
PlainRetrieveCalls ==
    RetrieveCalls({QueryBoth}, {None}, {None},
                  {Env("ok", PERNearer, w, r) :
                      w \in WeighPool, r \in RerankOracles({SalesBetter})})

\* the caller stops indexing once the collection holds MaxStore documents or
\* _changes_since_save has reached MaxChanges
Calls ==
    (IF Len(text_store) < MaxStore /\ _changes_since_save < MaxChanges
     THEN IndexTextCalls ELSE {})
    \cup DeleteDocumentCalls \cup SetRetrievalConfigCalls \cup PlainRetrieveCalls

Call ==
    /\ last.op # "call"
    /\ \E c \in Calls : last' = c
    /\ UNCHANGED <<BM25_AVAILABLE, bm25_vars, auto_save, save_interval, text_store,
                   config, deleted_sources, threads>>

\* the end of a call of the engine
Return(r) ==
    /\ SetRag(r.rag)
    /\ last' = [op |-> "return", call |-> last, out |-> r.out]
    /\ UNCHANGED <<BM25_AVAILABLE, auto_save, save_interval>>

\* the sources a call of index_text indexes
SourcesOf(metadata) ==
    IF metadata = None \/ metadata[1].source = None THEN {}
    ELSE {metadata[1].source[1]}

IndexText ==
    /\ last.op = "call"
    /\ last.name = "index_text"
    /\ Return(index_text(Rag, last.text, last.metadata, last.chunk_text,
                         last.chroma, last.io))
    /\ deleted_sources' = deleted_sources \ SourcesOf(last.metadata)
    /\ UNCHANGED threads

Retrieve ==
    /\ last.op = "call"
    /\ last.name = "retrieve"
    /\ last' = [op |-> "return", call |-> last,
                out |-> retrieve(Rag, last.query, last.k, last.use_reranker, last.env)]
    /\ UNCHANGED <<BM25_AVAILABLE, bm25_vars, auto_save, save_interval, text_store,
                   config, deleted_sources, threads>>

\* deleted_sources: the sources delete_document has returned True for and
\* that index_text was not called with since
DeleteReturn(r, source) ==
    /\ Return(r)
    /\ deleted_sources' = IF ~r.out.raised /\ r.out.ret = Some(TRUE)
                          THEN deleted_sources \cup {source}
                          ELSE deleted_sources
    /\ UNCHANGED threads

DeleteDocument ==
    /\ last.op = "call"
    /\ last.name = "delete_document"
    /\ DeleteReturn(delete_document(Rag, last.source, last.chroma, last.io),
                    last.source)

SetRetrievalConfig ==
    /\ last.op = "call"
    /\ last.name = "set_retrieval_config"
    /\ Return([rag |-> set_retrieval_config(Rag, None, None, last.use_reranker,
                                            last.use_hybrid, None, None),
               out |-> [raised |-> FALSE, ret |-> None]])
    /\ UNCHANGED <<deleted_sources, threads>>

\* RAGRetriever(use_hybrid=...) on an empty collection and no index file
Init ==
    /\ BM25_AVAILABLE \in BOOLEAN
    /\ \E use_hybrid \in BOOLEAN : InitRag(RAGRetriever(use_hybrid))
    /\ deleted_sources = {}
    /\ threads = <<>>
    /\ last = [op |-> "init"]

Next == Call \/ IndexText \/ Retrieve \/ DeleteDocument \/ SetRetrievalConfig

Spec == Init /\ [][Next]_vars

----------------------------------------------------------------------------
(* SpecRetrieve: retrieve as a function of the engine's state, of its      *)
(* arguments and of what the stores and the models answer.                 *)

\* the engine after index_text(d.text, d.metadata, chunk_text=False) for
\* each d of docs
RECURSIVE Populated(_, _)
Populated(rag, docs) ==
    IF docs = <<>> THEN rag
    ELSE Populated(index_text(rag, Head(docs).text, Head(docs).metadata, FALSE,
                              "ok", "ok").rag,
                   Tail(docs))

\* the states retrieve is called in: a fresh engine, documents indexed with
\* hybrid search on or off, then the two switches set
Engines ==
    {set_retrieval_config(Populated(RAGRetriever(h), docs), None, None,
                          Some(r), Some(u), None, None) :
        h \in BOOLEAN, docs \in SeqsUpTo(IndexPool, MaxStore),
        r \in BOOLEAN, u \in BOOLEAN}

\* what the two searches are answered: any text nearest with every document
\* weighed the same, TextPER nearest with any weighing, or TextROE far
EvenWeigh == [i \in 1..Cardinality(IndexPool) |-> 1]
SearchAnswers ==
    {[distance |-> Nearest(t), weigh |-> EvenWeigh] : t \in IndexedTexts}
    \cup {[distance |-> PERNearer, weigh |-> w] : w \in WeighPool}
    \cup {[distance |-> Far(TextROE), weigh |-> EvenWeigh]}

\* k of retrieve: rerank_top_k, or a number
KPool == {None, Some(0), Some(1)}

AllRetrieveCalls ==
    RetrieveCalls({QueryBoth}, {None, Some(1)}, {None},
                  {Env("ok", a.distance, a.weigh, r) :
                      a \in SearchAnswers,
                      r \in RerankOracles({Prefers(t) : t \in IndexedTexts})})
    \cup RetrieveCalls({QueryBoth, QueryNoToken}, KPool, {None, Some(FALSE)},
                       {Env(c, PERNearer, EvenWeigh, r) :
                           c \in StoreOutcomes, r \in RerankOracles({SalesBetter})})

InitRetrieve ==
    /\ BM25_AVAILABLE \in BOOLEAN
    /\ \E rag \in Engines : InitRag(rag)
    /\ deleted_sources = {}
    /\ threads = <<>>
    /\ last \in AllRetrieveCalls

NextRetrieve == Retrieve

SpecRetrieve == InitRetrieve /\ [][NextRetrieve]_vars

----------------------------------------------------------------------------
(* SpecSplit: TextSplitter.split_text as a function of the text and of the *)
(* two sizes the splitter was constructed with.                            *)

\* the characters of the texts: a letter, the period, and the white space
\* the separators are made of and one that no separator holds
SplitChars == {"a", ".", " ", "\n", "\t"}

\* the longest text
MaxTextLen == 5

\* the largest chunk_size
MaxChunkSize == 3

\* TextSplitter(chunk_size, chunk_overlap).split_text(text)
SplitCalls ==
    {[op |-> "call", name |-> "split_text", text |-> text, chunk_size |-> size,
      chunk_overlap |-> overlap] :
        text \in SeqsUpTo(SplitChars, MaxTextLen),
        size \in 1..MaxChunkSize, overlap \in 0..(MaxChunkSize - 1)}

InitSplit ==
    /\ BM25_AVAILABLE = TRUE
    /\ InitRag(RAGRetriever(TRUE))
    /\ deleted_sources = {}
    /\ threads = <<>>
    /\ last \in {c \in SplitCalls : c.chunk_overlap < c.chunk_size}

SplitText ==
    /\ last.op = "call"
    /\ last.name = "split_text"
    /\ last' = [op |-> "return", call |-> last,
                out |-> split_text(last.text, EmptyDict, last.chunk_size,
                                   last.chunk_overlap, DefaultSeparators)]
    /\ UNCHANGED <<BM25_AVAILABLE, bm25_vars, auto_save, save_interval, text_store,
                   config, deleted_sources, threads>>

NextSplit == SplitText

SpecSplit == InitSplit /\ [][NextSplit]_vars

----------------------------------------------------------------------------
(* SpecIndex: index_text and index_document as functions of the engine's   *)
(* state, of their arguments and of what the file, the collection and the  *)
(* file system do.                                                         *)

TextEmpty == <<>>
\* " \n": white space only
TextBlank == <<" ", "\n">>

\* a page one character longer than the chunk size of the splitter
TextLongPage == Rep("a", ChunkSize + 1)

File(source, ext, readable, texts) ==
    [source |-> source, ext |-> ext, readable |-> readable, texts |-> texts]

\* a document of another format, a text file, a PDF that cannot be opened,
\* PDFs without pages or with a blank page, PDFs of one and of two pages
FilePool ==
    {File("f.docx", ".docx", TRUE, <<TextPER>>),
     File("f.txt", ".txt", TRUE, <<TextPER>>),
     File("torn.pdf", ".pdf", FALSE, <<>>),
     File("empty.pdf", ".pdf", TRUE, <<>>),
     File("blank.pdf", ".pdf", TRUE, <<TextBlank>>),
     File("one.pdf", ".pdf", TRUE, <<TextPER>>),
     File("two.pdf", ".pdf", TRUE, <<TextPER, TextSales>>)}

IndexMetas == {None, Some(Meta(Some("s1"), None))}

\* the PDF whose page the splitter cuts in two is indexed with the stores
\* working
IndexCalls ==
    {[op |-> "call", name |-> "index_text", text |-> t, metadata |-> md,
      chunk_text |-> c, chroma |-> v, io |-> o] :
        t \in {TextPER, TextEmpty, TextBlank}, md \in IndexMetas, c \in BOOLEAN,
        v \in StoreOutcomes, o \in IOOutcomes}
    \cup {[op |-> "call", name |-> "index_document", file |-> f, metadata |-> md,
           chunk_text |-> c, chroma |-> v, io |-> o] :
              f \in FilePool, md \in IndexMetas, c \in BOOLEAN,
              v \in StoreOutcomes, o \in IOOutcomes}
    \cup {[op |-> "call", name |-> "index_document",
           file |-> File("long.pdf", ".pdf", TRUE, <<TextLongPage>>),
           metadata |-> None, chunk_text |-> c, chroma |-> "ok", io |-> "ok"] :
              c \in BOOLEAN}

\* the engine one addition before a save is due: after index_document of a
\* PDF of save_interval - 1 pages and delete_document of it.  The Lexical
\* Index is empty again, save_index returns at line 327 without writing, and
\* _changes_since_save keeps its count
AlmostDue ==
    IF BM25_AVAILABLE
    THEN [RAGRetriever(TRUE) EXCEPT
             !.bm25_index.changes_since_save = DefaultSaveInterval - 1]
    ELSE RAGRetriever(TRUE)

IndexEngines == {RAGRetriever(TRUE), RAGRetriever(FALSE), AlmostDue}

InitIndex ==
    /\ BM25_AVAILABLE \in BOOLEAN
    /\ \E rag \in IndexEngines : InitRag(rag)
    /\ deleted_sources = {}
    /\ threads = <<>>
    /\ last \in IndexCalls

IndexDocument ==
    /\ last.op = "call"
    /\ last.name = "index_document"
    /\ Return(index_document(Rag, last.file, last.metadata, last.chunk_text,
                             last.chroma, last.io))
    /\ UNCHANGED <<deleted_sources, threads>>

NextIndex == IndexText \/ IndexDocument

SpecIndex == InitIndex /\ [][NextIndex]_vars

----------------------------------------------------------------------------
(* SpecThreads: two threads call one BM25IndexManager at the same time,    *)
(* each one method; threads[t] is the frame of thread t.                   *)

ThreadIds == {1, 2}

\* the corpus the calls start on: none, one document, or three documents of
\* two sources
ThreadCorpus == <<Document(TextPER, Meta(Some("s1"), Some(1))),
                  Document(TextSales, Meta(Some("s2"), None)),
                  Document(TextROE, Meta(Some("s1"), Some(2)))>>

ThreadManagers ==
    {BM25IndexManager(TRUE, SmallSaveInterval),
     add_documents(BM25IndexManager(TRUE, SmallSaveInterval),
                   SubSeq(ThreadCorpus, 1, 1), "ok").self,
     add_documents(BM25IndexManager(TRUE, SmallSaveInterval), ThreadCorpus, "ok").self}

\* the calls of the two threads
ThreadCalls ==
    {AddFrame(<<Document(TextPER, Meta(Some("s1"), Some(1)))>>),
     AddFrame(<<Document(TextSales, Meta(Some("s3"), None)),
                Document(TextPER, Meta(Some("s1"), Some(1)))>>),
     DeleteFrame("s1"),
     DeleteFrame("s2"),
     SearchFrame(QueryBoth, 2)}

InitThreads ==
    /\ BM25_AVAILABLE \in BOOLEAN
    /\ \E self \in ThreadManagers :
          InitRag([RAGRetriever(TRUE) EXCEPT !.bm25_index = self])
    /\ deleted_sources = {}
    /\ threads \in [ThreadIds -> ThreadCalls]
    /\ last = [op |-> "init"]

\* thread t has run one step
Step(t, r) ==
    /\ SetSelf(r.self)
    /\ threads' = [threads EXCEPT ![t] = r.frame]
    /\ UNCHANGED <<BM25_AVAILABLE, auto_save, save_interval, text_store, config,
                   deleted_sources, last>>

Running(t, method) == threads[t].method = method /\ threads[t].pc # "done"

ThreadAddDocuments ==
    \E t \in DOMAIN threads :
        Running(t, "add_documents") /\ Step(t, AddDocumentsStep(Self, threads[t]))

ThreadDeleteBySource ==
    \E t \in DOMAIN threads :
        Running(t, "delete_by_source") /\ Step(t, DeleteBySourceStep(Self, threads[t]))

ThreadSearch ==
    \E t \in DOMAIN threads :
        Running(t, "search") /\ Step(t, SearchStep(Self, threads[t]))

NextThreads == ThreadAddDocuments \/ ThreadDeleteBySource \/ ThreadSearch

SpecThreads == InitThreads /\ [][NextThreads]_vars

----------------------------------------------------------------------------
(* SpecSearch: BM25IndexManager.search on the corpora add_documents builds *)
(* from SearchPool.                                                        *)

\* two sources hold the same text, so a term can be in one, in half or in
\* most of the documents
SearchPool ==
    {Document(TextPER, Meta(Some("s1"), Some(1))),
     Document(TextPER, Meta(Some("s3"), None)),
     Document(TextSales, Meta(Some("s2"), None)),
     Document(TextROE, Meta(Some("s1"), Some(2)))}

\* the longest batch the corpus is built from
MaxSearchCorpus == 4

\* the largest k of search
MaxK == 3

QueryROE == <<"r", "o", "e">>

SearchManagers ==
    {add_documents(BM25IndexManager(TRUE, DefaultSaveInterval), documents, "ok").self :
        documents \in SeqsUpTo(SearchPool, MaxSearchCorpus)}

SearchCalls(corpus_size) ==
    {[op |-> "call", name |-> "search", query |-> q, k |-> k, weigh |-> w] :
        q \in {QueryBoth, QueryROE, QueryNoToken}, k \in 0..MaxK,
        w \in [1..corpus_size -> BM25ScoreVals]}

InitSearch ==
    /\ BM25_AVAILABLE \in BOOLEAN
    /\ \E self \in SearchManagers :
          InitRag([RAGRetriever(TRUE) EXCEPT !.bm25_index = self])
    /\ deleted_sources = {}
    /\ threads = <<>>
    /\ last \in SearchCalls(Len(_corpus))

Search ==
    /\ last.op = "call"
    /\ last.name = "search"
    /\ last' = [op |-> "return", call |-> last,
                out |-> search(Self, last.query, last.k, last.weigh)]
    /\ UNCHANGED <<BM25_AVAILABLE, bm25_vars, auto_save, save_interval, text_store,
                   config, deleted_sources, threads>>

NextSearch == Search

SpecSearch == InitSearch /\ [][NextSearch]_vars

----------------------------------------------------------------------------
(* SpecRerank: the reranking of a candidate pool, lines 371-391 of         *)
(* retrieve, with the batch size of rerank left to the caller.             *)

\* the most candidates of a pool
MaxCandidates == 4

\* the largest batch_size
MaxBatchSize == 3

\* the pools: passages of SearchPool in any order, some more than once, each
\* with a distance
CandidatePools ==
    {[i \in 1..Len(docs) |-> <<docs[i], Unit \div 2>>] :
        docs \in SeqsUpTo(SearchPool, MaxCandidates)}

\* the reranker model gives each text a score of its own choice
RerankScores == {Unit \div 3, Unit \div 2}

RerankCalls ==
    {[op |-> "call", name |-> "rerank", query |-> QueryBoth, vector_results |-> p,
      final_k |-> k, batch_size |-> b,
      oracle |-> [outcome |-> "ok", score |-> f]] :
        p \in CandidatePools, k \in 0..MaxK, b \in 1..MaxBatchSize,
        f \in [IndexedTexts -> RerankScores]}

InitRerank ==
    /\ BM25_AVAILABLE \in BOOLEAN
    /\ InitRag(RAGRetriever(TRUE))
    /\ deleted_sources = {}
    /\ threads = <<>>
    /\ last \in RerankCalls

\* documents = [doc.page_content for doc, _ in vector_results]
ContentsOf(vector_results) ==
    [i \in 1..Len(vector_results) |-> vector_results[i][1].page_content]

\* the call of rerank and the loop of retrieve over its results; batches is
\* what the model was asked to score
Rerank ==
    /\ last.op = "call"
    /\ last.name = "rerank"
    /\ last' = [op |-> "return", call |-> last,
                batches |-> Batches(ContentsOf(last.vector_results), 0, last.batch_size),
                rerank_results |->
                    RerankInBatches(ContentsOf(last.vector_results), Some(last.final_k),
                                    last.batch_size, last.oracle).results,
                out |-> RerankedResult(last.query, last.vector_results,
                            RerankInBatches(ContentsOf(last.vector_results),
                                            Some(last.final_k), last.batch_size,
                                            last.oracle))]
    /\ UNCHANGED <<BM25_AVAILABLE, bm25_vars, auto_save, save_interval, text_store,
                   config, deleted_sources, threads>>

NextRerank == Rerank

SpecRerank == InitRerank /\ [][NextRerank]_vars

----------------------------------------------------------------------------
(* SpecLoad: BM25IndexManager.__init__ on whatever the path holds.         *)

\* the entries of a file: two that load, one whose text has no token, one
\* without "page_content"
FileEntries ==
    {[doc_id |-> _generate_id(d), page_content |-> d.page_content,
      metadata |-> d.metadata] :
        d \in DocPool \cup {Document(TextNoToken, Meta(Some("s1"), None))}}
    \cup {[doc_id |-> _generate_id(Document(TextROE, EmptyDict)),
           metadata |-> EmptyDict]}

\* the most entries of a file
MaxEntries == 3

\* no file, a file that is not JSON, or a JSON file with any entries
LoadFiles ==
    {None, Some(TornFile)}
    \cup {Some([readable |-> TRUE, version |-> "1.0", corpus_size |-> Len(documents),
                documents |-> documents]) :
             documents \in SeqsUpTo(FileEntries, MaxEntries)}

InitLoad ==
    /\ BM25_AVAILABLE \in BOOLEAN
    /\ \E a \in BOOLEAN, file \in LoadFiles :
          InitRag([RAGRetriever(TRUE) EXCEPT
                      !.bm25_index = [BM25IndexManager(a, DefaultSaveInterval)
                                         EXCEPT !.file = file]])
    /\ deleted_sources = {}
    /\ threads = <<>>
    /\ last = [op |-> "call", name |-> "__init__"]

\* BM25IndexManager(persist_path, auto_save): the fields are set and
\* _load_index runs
Construct ==
    /\ last.op = "call"
    /\ last.name = "__init__"
    /\ SetSelf(Reopened(auto_save, save_interval, persist_file))
    /\ last' = [op |-> "return", call |-> last, file |-> persist_file]
    /\ UNCHANGED <<BM25_AVAILABLE, auto_save, save_interval, text_store, config,
                   deleted_sources, threads>>

NextLoad == Construct

SpecLoad == InitLoad /\ [][NextLoad]_vars

----------------------------------------------------------------------------
(* SpecSteps: split_text run statement by statement.  last.stack holds the *)
(* calls of _split_recursive and _split_by_length that have not returned,  *)
(* the innermost last; a frame is the position and the locals of a call.   *)

\* the characters of the texts split step by step: a letter and what the
\* separators are made of
StepChars == {"a", " ", "\n"}

\* the longest text that is split step by step
MaxStepLen == 3

\* _split_by_length(text) about to run its loop
LengthFrame(text) ==
    [pc |-> "while", text |-> text, separators |-> <<>>, parts |-> <<>>, i |-> 1,
     start |-> 0, chunks |-> <<>>]

\* _split_recursive(text, separators) about to run: without separators it is
\* the call of _split_by_length, otherwise parts = text.split(separators[0])
RecursiveFrame(text, separators) ==
    IF separators = <<>> THEN LengthFrame(text)
    ELSE [pc |-> "for", text |-> text, separators |-> separators,
          parts |-> Split(text, Head(separators)), i |-> 1, start |-> 0,
          chunks |-> <<>>]

StepCalls ==
    {[op |-> "call", name |-> "split_text", text |-> text, chunk_size |-> size,
      chunk_overlap |-> overlap] :
        text \in SeqsUpTo(StepChars, MaxStepLen),
        size \in 1..MaxChunkSize, overlap \in 0..(MaxChunkSize - 1)}

InitSteps ==
    /\ BM25_AVAILABLE = TRUE
    /\ InitRag(RAGRetriever(TRUE))
    /\ deleted_sources = {}
    /\ threads = <<>>
    /\ last = [op |-> "init"]

\* TextSplitter(chunk_size, chunk_overlap).split_text(text) is called
StepCall ==
    /\ last.op = "init"
    /\ last' \in {c \in StepCalls : c.chunk_overlap < c.chunk_size}
    /\ UNCHANGED <<BM25_AVAILABLE, bm25_vars, auto_save, save_interval, text_store,
                   config, deleted_sources, threads>>

InCall(stack) == [op |-> "run", call |-> last.call, stack |-> stack]

\* the rest of split_text once _split_recursive has returned chunks: the
\* merge and the loop over the merged chunks
SplitReturn(call, chunks) ==
    [op |-> "return", call |-> call, chunks |-> chunks,
     out |-> ChunkLoop(call.text, EmptyDict,
                       _merge_chunks(chunks, call.chunk_size), 0, 0,
                       call.chunk_overlap)]

\* a call returns chunks: to split_text when it was the outermost, else to
\* `chunks.extend(sub_chunks)` of the calling frame, which goes on with the
\* next part
ReturnChunks(stack, chunks) ==
    IF Len(stack) = 1 THEN SplitReturn(last.call, chunks)
    ELSE InCall(SubSeq(stack, 1, Len(stack) - 2)
                \o <<[stack[Len(stack) - 1] EXCEPT
                        !.chunks = @ \o chunks, !.i = @ + 1]>>)

\* split_text up to its call of _split_recursive
SplitEnter ==
    /\ last.op = "call"
    /\ last.name = "split_text"
    /\ last' = IF Strip(last.text) = <<>>
               THEN [op |-> "return", call |-> last, chunks |-> <<>>, out |-> <<>>]
               ELSE [op |-> "run", call |-> last,
                     stack |-> <<RecursiveFrame(last.text, DefaultSeparators)>>]
    /\ UNCHANGED <<BM25_AVAILABLE, bm25_vars, auto_save, save_interval, text_store,
                   config, deleted_sources, threads>>

\* one pass of the loop of _split_recursive over parts, or its return
ForPart(stack, f, size) ==
    IF f.i > Len(f.parts) THEN ReturnChunks(stack, f.chunks)
    ELSE IF Len(f.parts[f.i]) <= size
    THEN InCall([stack EXCEPT ![Len(stack)] =
                     [f EXCEPT !.i = @ + 1,
                               !.chunks = IF Strip(f.parts[f.i]) # <<>>
                                          THEN Append(@, f.parts[f.i]) ELSE @]])
    ELSE InCall(Append(stack, RecursiveFrame(f.parts[f.i], Tail(f.separators))))

RecursiveStep ==
    /\ last.op = "run"
    /\ last.stack[Len(last.stack)].pc = "for"
    /\ last' = ForPart(last.stack, last.stack[Len(last.stack)], last.call.chunk_size)
    /\ UNCHANGED <<BM25_AVAILABLE, bm25_vars, auto_save, save_interval, text_store,
                   config, deleted_sources, threads>>

\* a pass that steps back by the overlap also after the last chunk
WhilePassBack(stack, f, end, overlap) ==
    InCall([stack EXCEPT ![Len(stack)] =
               [f EXCEPT !.chunks = Append(@, SubSeq(f.text, f.start + 1, end)),
                         !.start = end - overlap]])

\* one pass of the while loop of _split_by_length, or its return
WhilePass(stack, f, end, overlap) ==
    InCall([stack EXCEPT ![Len(stack)] =
               [f EXCEPT !.chunks = Append(@, SubSeq(f.text, f.start + 1, end)),
                          !.start = IF end < Len(f.text) THEN end - overlap ELSE end]])

LengthStep ==
    /\ last.op = "run"
    /\ last.stack[Len(last.stack)].pc = "while"
    /\ last' = IF last.stack[Len(last.stack)].start
                    < Len(last.stack[Len(last.stack)].text)
               THEN WhilePass(last.stack, last.stack[Len(last.stack)],
                              Min(last.stack[Len(last.stack)].start
                                      + last.call.chunk_size,
                                  Len(last.stack[Len(last.stack)].text)),
                              last.call.chunk_overlap)
               ELSE ReturnChunks(last.stack, last.stack[Len(last.stack)].chunks)
    /\ UNCHANGED <<BM25_AVAILABLE, bm25_vars, auto_save, save_interval, text_store,
                   config, deleted_sources, threads>>

NextSteps == StepCall \/ SplitEnter \/ RecursiveStep \/ LengthStep

SpecSteps == InitSteps /\ [][NextSteps]_vars

\* the interpreter runs the next statement of the one thread there is
FairSteps == SpecSteps /\ WF_vars(NextSteps)

----------------------------------------------------------------------------
(* SpecDedup: add_documents on passages longer than the prefix the key is  *)
(* made of.                                                                *)

\* TextLongA and TextLongB have their first PrefixLen characters in common
LongPool ==
    {Document(TextLongA, Meta(Some("s1"), Some(1))),
     Document(TextLongB, Meta(Some("s1"), Some(1))),
     Document(TextLongB, Meta(Some("s2"), Some(1))),
     Document(TextLongA, Meta(Some("s1"), None)),
     Document(TextNoToken, Meta(Some("s1"), Some(1)))}

\* the longest batch of long passages
MaxLongBatch == 2

\* the manager holds nothing or one of the passages
DedupManagers ==
    {add_documents(BM25IndexManager(FALSE, DefaultSaveInterval), documents, "ok").self :
        documents \in SeqsUpTo(LongPool, 1)}

InitDedup ==
    /\ BM25_AVAILABLE \in BOOLEAN
    /\ \E self \in DedupManagers :
          InitRag([RAGRetriever(TRUE) EXCEPT !.bm25_index = self])
    /\ deleted_sources = {}
    /\ threads = <<>>
    /\ last \in {[op |-> "call", name |-> "add_documents", documents |-> documents] :
                    documents \in SeqsUpTo(LongPool, MaxLongBatch)}

AddLong ==
    /\ last.op = "call"
    /\ last.name = "add_documents"
    /\ SetSelf(add_documents(Self, last.documents, "ok").self)
    /\ last' = [op |-> "return", call |-> last,
                out |-> add_documents(Self, last.documents, "ok").ret]
    /\ UNCHANGED <<BM25_AVAILABLE, auto_save, save_interval, text_store, config,
                   deleted_sources, threads>>

NextDedup == AddLong

SpecDedup == InitDedup /\ [][NextDedup]_vars
----------------------------------------------------------------------------
(* Properties *)

\* a call of `name` has returned to the caller (or raised)
Ended(name) == last.op = "return" /\ last.call.name = name

\* the passages a call of index_text is to index: the text, or its chunks
ChunksOf(call) ==
    split_text(call.text, OrEmptyDict(call.metadata), ChunkSize, ChunkOverlap,
               DefaultSeparators)
ChunkPassages(chunks) ==
    [i \in 1..Len(chunks) |-> Document(chunks[i].content, chunks[i].metadata)]
Passages(call) ==
    IF call.chunk_text THEN ChunkPassages(ChunksOf(call))
    ELSE <<Document(call.text, OrEmptyDict(call.metadata))>>

\* C1: after delete_document(s) has returned True, and until s is indexed
\* again, no retrieve result holds a passage whose metadata source is s,
\* whatever use_hybrid was when delete_document was called.
C1_DeleteCompleteness ==
    (Ended("retrieve") /\ ~last.out.raised)
    => \A i \in 1..Len(last.out.ret[1].text_results) :
          \A s \in deleted_sources :
              last.out.ret[1].text_results[i].metadata.source # Some(s)

\* a retrieve that returned a passage of a source reported deleted
C1_Witness ==
    /\ Ended("retrieve")
    /\ ~last.out.raised
    /\ "s1" \in deleted_sources
    /\ \E i \in 1..Len(last.out.ret[1].text_results) :
          last.out.ret[1].text_results[i].metadata.source = Some("s1")

NoDuplicateKeys ==
    \A i \in 1..Len(_corpus) : \A j \in 1..Len(_corpus) :
        _corpus[i].doc_id = _corpus[j].doc_id => i = j

\* a step of add_documents or add_texts that returned
AddReturned == last'.op \in {"add_documents", "add_texts"} /\ ~last'.raised

\* the step returned the number of entries it appended, appended none whose
\* key was indexed, and left the entries that were there as they were
RepeatsAddNothing ==
    /\ Len(_corpus') >= Len(_corpus)
    /\ SubSeq(_corpus', 1, Len(_corpus)) = _corpus
    /\ last'.ret = Some(Len(_corpus') - Len(_corpus))
    /\ \A i \in (Len(_corpus) + 1)..Len(_corpus') :
          _corpus'[i].doc_id \notin {_corpus[j].doc_id : j \in 1..Len(_corpus)}

\* C2: under any sequence of add_documents, add_texts and delete_by_source
\* no two corpus entries have the same dedup key, and an add returns 0 for
\* the passages already indexed or repeated in its batch and leaves the
\* corpus unchanged for them (it returns exactly the number of entries it
\* appended, all with keys that were not indexed).
C2_NoDuplicateKeys ==
    /\ []NoDuplicateKeys
    /\ [][AddReturned => RepeatsAddNothing]_vars

\* add_documents of two indexed documents returned 0
C2_Witness ==
    /\ BM25_AVAILABLE
    /\ last.op = "add_documents"
    /\ last.offered = 2
    /\ ~last.raised
    /\ last.ret = Some(0)
    /\ Len(_corpus) = 2

\* every passage of the pending index_text call is in the Lexical Index
AllSeen ==
    \A i \in 1..Len(Passages(last)) :
        _generate_id(Passages(last)[i]) \in _indexed_ids

\* C3: with hybrid search enabled, index_text called again with arguments
\* whose passages are all indexed reports chunks_added = 0 and adds no
\* entry to the Lexical Index.
C3_IdempotentIndexing ==
    [][(/\ last.op = "call"
        /\ last.name = "index_text"
        /\ config.use_hybrid
        /\ AllSeen
        /\ last'.op = "return")
       => (last'.out.ret.chunks_added = 0 /\ _corpus' = _corpus)]_vars

\* index_text returned for a text whose passage was indexed before the call
C3_Witness ==
    /\ Ended("index_text")
    /\ ~last.call.chunk_text
    /\ config.use_hybrid
    /\ last.call.text = TextPER
    /\ last.out.ret.success
    /\ Len(text_store) = 2
    /\ Len(_corpus) = 1

\* the last n documents of the collection are the passages
WrittenLast(passages) ==
    /\ Len(text_store) >= Len(passages)
    /\ SubSeq(text_store, Len(text_store) - Len(passages) + 1, Len(text_store))
       = passages

\* C4: index_text with chunk_text=True on a text the splitter cuts into
\* n >= 1 passages returns success with chunks_added = n, and the passages
\* are in the Vector Index and (hybrid search enabled) the tokenizable ones
\* in the Lexical Index; the stores did not fail during the call.
C4_ChunkedIndexing ==
    (/\ Ended("index_text")
     /\ last.call.chunk_text
     /\ last.call.chroma = "ok"
     /\ last.call.io = "ok"
     /\ Len(ChunksOf(last.call)) >= 1)
    => /\ last.out.ret.success
       /\ last.out.ret.chunks_added = Len(ChunksOf(last.call))
       /\ WrittenLast(Passages(last.call))
       /\ config.use_hybrid =>
             \A i \in 1..Len(Passages(last.call)) :
                 _tokenize_korean(Passages(last.call)[i].page_content) # <<>>
                 => _generate_id(Passages(last.call)[i]) \in _indexed_ids

\* index_text with chunk_text=True returned for a text of one chunk
C4_Witness ==
    /\ Ended("index_text")
    /\ last.call.chunk_text
    /\ last.call.chroma = "ok"
    /\ Len(ChunksOf(last.call)) = 1
    /\ ~last.out.ret.success

\* the candidate pool of the retrieve call that ended (retrieve changes
\* nothing of the engine)
PoolOfLast ==
    CandidatePool(Rag, last.call.query,
                  SearchK(Rag, last.call.k, last.call.use_reranker), last.call.env)

FinalKOfLast == FinalK(Rag, last.call.k)

RerankOfLast == ShouldRerank(Rag, last.call.use_reranker)

\* C5: a retrieve call with final_k >= 0 that returns gives
\* min(final_k, size of the candidate pool) results (and as many scores),
\* reranked or only truncated.
C5_BoundedOutput ==
    (Ended("retrieve") /\ ~last.out.raised /\ FinalKOfLast >= 0)
    => /\ Len(last.out.ret[1].text_results) = Min(FinalKOfLast, Len(PoolOfLast))
       /\ Len(last.out.ret[1].scores) = Min(FinalKOfLast, Len(PoolOfLast))

\* a reranked pool of two cut to one result
C5_Witness ==
    /\ Ended("retrieve")
    /\ ~last.out.raised
    /\ last.out.ret[1].is_reranked
    /\ FinalKOfLast = 1
    /\ Len(PoolOfLast) = 2
    /\ Len(last.out.ret[1].text_results) = 1

\* C6: reranking requested on a populated corpus while the reranker model
\* fails to load or to score: retrieve does not raise and returns the
\* candidate pool truncated to final_k with is_reranked = false.
C6_RerankerFailureFallsBack ==
    (/\ Ended("retrieve")
     /\ RerankOfLast
     /\ text_store # <<>>
     /\ last.call.env.chroma = "ok"
     /\ last.call.env.reranker.outcome # "ok")
    => /\ ~last.out.raised
       /\ ~last.out.ret[1].is_reranked
       /\ last.out.ret[1].text_results
          = [i \in 1..Min(Max(FinalKOfLast, 0), Len(PoolOfLast)) |-> PoolOfLast[i][1]]

\* retrieve ended with a populated corpus and a reranker that failed
C6_Witness ==
    /\ Ended("retrieve")
    /\ RerankOfLast
    /\ Len(text_store) = 2
    /\ last.call.env.chroma = "ok"
    /\ last.call.env.reranker.outcome = "scoring_fails"
    /\ last.out.reranker_called

\* the two searches of the retrieve call that ended
VectorOfLast ==
    search_with_scores(text_store,
                       SearchK(Rag, last.call.k, last.call.use_reranker), None,
                       last.call.env.distance)
LexicalOfLast ==
    LexicalResults(Rag, last.call.query,
                   SearchK(Rag, last.call.k, last.call.use_reranker),
                   last.call.env.weigh)

\* C7: when neither search yields a candidate, retrieve returns without
\* raising and without calling the reranker: no results, no scores,
\* is_reranked false and the no-match text as combined_context, whatever
\* use_reranker is.
C7_EmptyResult ==
    (/\ Ended("retrieve")
     /\ last.call.env.chroma = "ok"
     /\ VectorOfLast = <<>>
     /\ LexicalOfLast = <<>>)
    => /\ ~last.out.raised
       /\ ~last.out.reranker_called
       /\ last.out.ret[1].text_results = <<>>
       /\ last.out.ret[1].scores = <<>>
       /\ ~last.out.ret[1].is_reranked
       /\ last.out.ret[1].combined_context = NoMatchContext

\* retrieve on a never-indexed corpus, reranking on and the reranker model
\* not loadable
C7_Witness ==
    /\ Ended("retrieve")
    /\ text_store = <<>>
    /\ _corpus = <<>>
    /\ last.call.env.chroma = "ok"
    /\ RerankOfLast
    /\ last.call.env.reranker.outcome = "load_fails"
    /\ ~last.out.raised

\* Lexical Indexes other than the engine's: an empty one and one holding
\* every text of the pool
OtherLexicalIndexes ==
    {add_texts(BM25IndexManager(TRUE, DefaultSaveInterval), texts, None, "ok").self :
        texts \in {<<>>, <<TextPER, TextSales, TextROE>>}}

\* C8: with use_hybrid = false, retrieve gives the same output (documents,
\* order, scores, is_reranked, context, raising) whatever the Lexical Index
\* holds, for the same query, k, collection and oracle answers.
C8_HybridOffIsVectorOnly ==
    (Ended("retrieve") /\ ~config.use_hybrid)
    => \A index \in OtherLexicalIndexes :
          retrieve([Rag EXCEPT !.bm25_index = index], last.call.query, last.call.k,
                   last.call.use_reranker, last.call.env) = last.out

\* hybrid search off, a Lexical Index that holds a match for the query, and
\* a result that is not empty
C8_Witness ==
    /\ Ended("retrieve")
    /\ ~config.use_hybrid
    /\ search(Self, last.call.query, SearchK(Rag, last.call.k, last.call.use_reranker),
              last.call.env.weigh) # <<>>
    /\ ~last.out.raised
    /\ last.out.ret[1].text_results # <<>>

\* the content-prefix key of reciprocal_rank_fusion
Key(doc) == Prefix(doc.page_content, PrefixLen)
Keys(results) == {Key(results[i][1]) : i \in 1..Len(results)}

\* the fused score of the entry of a key
FusedScore(merged, key) ==
    merged[CHOOSE i \in 1..Len(merged) : Key(merged[i][1]) = key][2]

\* C9: with positive weights, a document that is 1st in both lists gets a
\* fused score >= that of any document that is in only one of the lists.
C9_RRFMonotonicity ==
    (/\ Ended("reciprocal_rank_fusion")
     /\ last.call.vector_results # <<>>
     /\ last.call.bm25_results # <<>>
     /\ Key(last.call.vector_results[1][1]) = Key(last.call.bm25_results[1][1]))
    => \A b \in (Keys(last.call.vector_results) \cup Keys(last.call.bm25_results))
                \ (Keys(last.call.vector_results) \cap Keys(last.call.bm25_results)) :
          FusedScore(last.out, Key(last.call.vector_results[1][1]))
          >= FusedScore(last.out, b)

\* a fusion of lists with the same first document and a document that is in
\* the vector list only
C9_Witness ==
    /\ Ended("reciprocal_rank_fusion")
    /\ Len(last.call.vector_results) = MaxRank
    /\ Len(last.call.bm25_results) = 1
    /\ Key(last.call.vector_results[1][1]) = Key(last.call.bm25_results[1][1])
    /\ \E b \in Keys(last.call.vector_results) :
          /\ b \notin Keys(last.call.bm25_results)
          /\ FusedScore(last.out, b)
             > FusedScore(last.out, Key(last.call.vector_results[1][1]))

\* the score one list gives a key: 0 when the key is not in the list, else
\* weight / (k + r) for a rank r of the key in the list
RankTerms(results, key, weight, k) ==
    IF key \notin Keys(results) THEN {0}
    ELSE {weight * (Unit \div (k + r)) :
             r \in {i \in 1..Len(results) : Key(results[i][1]) = key}}

\* C10: reciprocal_rank_fusion returns one entry per distinct key of the two
\* lists, each with the score vector_weight / (k + r) + bm25_weight / (k + r')
\* for its ranks r and r' (only the terms of the lists it is in), sorted by
\* score in non-increasing order.
C10_RRFScores ==
    Ended("reciprocal_rank_fusion")
    => /\ Len(last.out) = Cardinality(Keys(last.out))
       /\ Keys(last.out) = Keys(last.call.vector_results) \cup Keys(last.call.bm25_results)
       /\ \A i \in 1..Len(last.out) :
             \E tv \in RankTerms(last.call.vector_results, Key(last.out[i][1]),
                                 last.call.vector_weight, last.call.k) :
                \E tb \in RankTerms(last.call.bm25_results, Key(last.out[i][1]),
                                    last.call.bm25_weight, last.call.k) :
                   last.out[i][2] = tv + tb
       /\ \A i \in 1..(Len(last.out) - 1) : last.out[i][2] >= last.out[i + 1][2]

\* a fusion whose vector list holds a key twice
C10_Witness ==
    /\ Ended("reciprocal_rank_fusion")
    /\ Len(last.call.vector_results) = 2
    /\ Key(last.call.vector_results[1][1]) = Key(last.call.vector_results[2][1])
    /\ last.call.bm25_results = <<>>
    /\ Len(last.out) = 1


\* the manager a later BM25IndexManager(persist_path, ...) would be
ReopenedNow == Reopened(auto_save, save_interval, persist_file)

\* C13: with auto_save enabled, once delete_by_source(s) has returned a
\* count >= 1, a BM25IndexManager constructed on the same persist_path
\* holds no entry whose source is s, also when the corpus is left empty.
C13_DeletePersisted ==
    (/\ last.op = "delete_by_source"
     /\ ~last.raised
     /\ last.ret[1] >= 1
     /\ auto_save)
    => \A i \in 1..Len(ReopenedNow.corpus) :
          ReopenedNow.corpus[i].metadata.source # Some(last.offered)

\* delete_by_source removed the last entry of a corpus that had been saved
C13_Witness ==
    /\ last.op = "delete_by_source"
    /\ ~last.raised
    /\ last.ret = Some(1)
    /\ auto_save
    /\ _corpus = <<>>
    /\ persist_file # None
    /\ ReopenedNow.corpus # <<>>

\* a step of add_documents or add_texts
AddStep == last'.op \in {"add_documents", "add_texts"}

\* C19: with auto_save enabled, add_documents writes the index file only
\* when the additions since the last save reach save_interval, a save
\* resets the counter to 0, and after every add_documents call that
\* completed the counter is below save_interval.
C19_DebouncedSave ==
    /\ [][(AddStep /\ persist_file' # persist_file)
          => /\ auto_save
             /\ _changes_since_save + Len(_corpus') - Len(_corpus) >= save_interval]_vars
    /\ [][(AddStep /\ ~last'.raised /\ persist_file' # persist_file)
          => _changes_since_save' = 0]_vars
    /\ []((last.op \in {"add_documents", "add_texts"} /\ ~last.raised /\ auto_save)
          => _changes_since_save < save_interval)

\* add_documents completed with save_interval additions not persisted
C19_Witness ==
    /\ last.op = "add_documents"
    /\ ~last.raised
    /\ last.ret = Some(0)
    /\ auto_save
    /\ _changes_since_save >= save_interval

\* C20: when the write of the index file fails during add_documents or
\* delete_by_source, the call does not raise: it returns its count, the
\* corpus in memory keeps the change and the counter of unsaved changes is
\* not reset.
C20_SaveFailureIsNotRaised ==
    [][(/\ last'.op \in {"add_documents", "delete_by_source"}
        /\ last'.io # "ok"
        /\ _corpus' # _corpus)
       => /\ ~last'.raised
          /\ last'.ret \in {Some(Len(_corpus') - Len(_corpus)),
                            Some(Len(_corpus) - Len(_corpus'))}
          /\ _changes_since_save' >= _changes_since_save]_vars

\* add_documents raised on the write of the file, with the documents added
\* in memory
C20_Witness ==
    /\ last.op = "add_documents"
    /\ last.io = "write_fails"
    /\ last.raised
    /\ Len(_corpus) = 2
    /\ persist_file = Some(TornFile)

\* the list reciprocal_rank_fusion gives the retrieve call that ended
FusedOfLast ==
    reciprocal_rank_fusion(VectorOfLast, LexicalOfLast, RRF_K,
                           config.vector_weight, config.bm25_weight)

\* the place of an entry in the corpus
CorpusPlace(doc) ==
    CHOOSE p \in 1..Len(_corpus) :
        /\ _corpus[p].page_content = doc.page_content
        /\ _corpus[p].metadata = doc.metadata

\* the place where a key is first seen in the vector list followed by the
\* lexical list
FirstSeen(key) ==
    CHOOSE p \in 1..(Len(VectorOfLast) + Len(LexicalOfLast)) :
        /\ Key((VectorOfLast \o LexicalOfLast)[p][1]) = key
        /\ \A q \in 1..(p - 1) : Key((VectorOfLast \o LexicalOfLast)[q][1]) # key

\* entries with equal scores are in the order of their places
TiesInOrder(scores, place) ==
    \A i \in 1..Len(scores) : \A j \in (i + 1)..Len(scores) :
        scores[i] = scores[j] => place[i] < place[j]

\* docs are documents of the candidates, each candidate taken once, and
\* those with equal scores are in the order of the candidates
TakenInOrder(docs, scores, candidates) ==
    \E f \in [1..Len(docs) -> 1..Len(candidates)] :
        /\ \A i \in 1..Len(docs) : docs[i] = candidates[f[i]][1]
        /\ \A i \in 1..Len(docs) : \A j \in (i + 1)..Len(docs) :
              /\ f[i] # f[j]
              /\ scores[i] = scores[j] => f[i] < f[j]

\* C11: the three sorts of a retrieve call are stable: lexical results with
\* equal scores are in corpus order, fused entries with equal scores are in
\* the order their keys were first seen (vector list, then lexical list),
\* and reranked results with equal scores are in the order of the candidate
\* pool; retrieve reads nothing but its arguments, the two stores, the
\* settings and the oracle answers.
C11_StableOrder ==
    (Ended("retrieve") /\ last.call.env.chroma = "ok")
    => /\ TiesInOrder([i \in 1..Len(LexicalOfLast) |-> LexicalOfLast[i][2]],
                      [i \in 1..Len(LexicalOfLast) |-> CorpusPlace(LexicalOfLast[i][1])])
       /\ TiesInOrder([i \in 1..Len(FusedOfLast) |-> FusedOfLast[i][2]],
                      [i \in 1..Len(FusedOfLast) |-> FirstSeen(Key(FusedOfLast[i][1]))])
       /\ (~last.out.raised /\ last.out.ret[1].is_reranked)
          => TakenInOrder(last.out.ret[1].text_results, last.out.ret[1].scores,
                          PoolOfLast)

\* a reranked result whose second and third documents have the same score,
\* from a fusion whose first two entries have the same score
C11_Witness ==
    /\ Ended("retrieve")
    /\ ~last.out.raised
    /\ last.out.ret[1].is_reranked
    /\ Len(last.out.ret[1].scores) = 3
    /\ last.out.ret[1].scores[2] = last.out.ret[1].scores[3]
    /\ Len(LexicalOfLast) = 2
    /\ FusedOfLast[1][2] = FusedOfLast[2][2]

\* C16: for chunk_size >= 1 and 0 <= chunk_overlap < chunk_size, every
\* passage split_text returns holds a character that is not white space and
\* is at most chunk_size long, merged passages included.
C16_PassageSize ==
    Ended("split_text")
    => \A i \in 1..Len(last.out) :
          /\ Strip(last.out[i].content) # <<>>
          /\ Len(last.out[i].content) <= last.call.chunk_size

\* a text cut into two passages of which the first was merged from two
\* pieces
C16_Witness ==
    /\ Ended("split_text")
    /\ last.call.chunk_size = 3
    /\ Len(last.out) = 2
    /\ last.out[1].content = <<"a", "\n", "a">>
    /\ \A i \in 1..Len(last.call.text) : last.call.text[i] # "\n"

\* C17: when split_text returns more than one passage, the last
\* chunk_overlap characters of each passage are the first chunk_overlap
\* characters of the next.
C17_Overlap ==
    Ended("split_text")
    => \A i \in 1..(Len(last.out) - 1) :
          /\ Len(last.out[i].content) >= last.call.chunk_overlap
          /\ Len(last.out[i + 1].content) >= last.call.chunk_overlap
          /\ SubSeq(last.out[i].content,
                    Len(last.out[i].content) - last.call.chunk_overlap + 1,
                    Len(last.out[i].content))
             = SubSeq(last.out[i + 1].content, 1, last.call.chunk_overlap)

\* two passages cut at a separator, with an overlap of 1 asked for, that
\* share no character
C17_Witness ==
    /\ Ended("split_text")
    /\ last.call.chunk_overlap = 1
    /\ last.call.text = <<"a", "a", " ", ".", ".">>
    /\ Len(last.out) = 2
    /\ last.out[1].content = <<"a", "a">>
    /\ last.out[2].content = <<".", ".">>

\* an index_text or index_document call ended
IndexEnded == last.op = "return" /\ last.call.name \in {"index_text", "index_document"}

\* the passages an indexing call is to write to the Vector Index and to the
\* Lexical Index (none when the file cannot be loaded)
VectorPassages(call) ==
    IF call.name = "index_text" THEN Passages(call)
    ELSE IF load(call.file).raised THEN <<>>
    ELSE TextDocs(load(call.file).doc[1], OrEmptyDict(call.metadata), call.chunk_text)
LexicalPassages(call) ==
    IF call.name = "index_text" THEN Passages(call)
    ELSE IF load(call.file).raised THEN <<>>
    ELSE Bm25Docs(load(call.file).doc[1], OrEmptyDict(call.metadata))

\* the write of the index file was tried and failed: the counter of unsaved
\* changes is left at or above save_interval
LexicalWriteFailed ==
    /\ last.call.io # "ok"
    /\ auto_save
    /\ _changes_since_save >= save_interval

\* C12: in index_text and index_document with hybrid search enabled, when
\* the write to the Vector Index fails the tokenizable passages are still
\* in the Lexical Index after the call, and when the write to the Lexical
\* Index fails the call does not raise and the passages are in the Vector
\* Index.
C12_IndependentWrites ==
    (IndexEnded /\ config.use_hybrid /\ VectorPassages(last.call) # <<>>)
    => /\ (last.call.chroma = "raises" /\ last.call.io = "ok")
          => \A i \in 1..Len(LexicalPassages(last.call)) :
                _tokenize_korean(LexicalPassages(last.call)[i].page_content) # <<>>
                => _generate_id(LexicalPassages(last.call)[i]) \in _indexed_ids
       /\ (last.call.chroma = "ok" /\ LexicalWriteFailed)
          => /\ ~last.out.raised
             /\ WrittenLast(VectorPassages(last.call))

\* index_text ended after the collection refused the text, and the text is
\* not in the Lexical Index
C12_Witness ==
    /\ Ended("index_text")
    /\ config.use_hybrid
    /\ ~last.call.chunk_text
    /\ last.call.text = TextPER
    /\ last.call.chroma = "raises"
    /\ last.call.io = "ok"
    /\ ~last.out.ret.success
    /\ _generate_id(Passages(last.call)[1]) \notin _indexed_ids

SupportedExtensions == OcrExtensions \cup {".txt", ".md"}

\* all the texts are empty or white space
AllBlank(texts) == \A i \in 1..Len(texts) : Strip(texts[i]) = <<>>

\* the input of the pending call is malformed: a text that is empty or
\* white space, a file of a format that is not supported, or a file that
\* was read and holds no text
Malformed(call) ==
    IF call.name = "index_text" THEN Strip(call.text) = <<>>
    ELSE \/ call.file.ext \notin SupportedExtensions
         \/ call.file.readable /\ AllBlank(call.file.texts)

\* the payload reports that no chunk was added
ZeroChunks(call, ret) ==
    IF call.name = "index_text" THEN ret.chunks_added = 0
    ELSE ret.text_chunks_saved = 0

\* C18: index_text on an empty or white-space text and index_document on an
\* empty document or on a file of a format that is not supported do not
\* raise, return a payload that reports zero chunks added, and add nothing
\* to the Vector Index or to the Lexical Index.
C18_MalformedInput ==
    [][(/\ last.op = "call"
        /\ last.name \in {"index_text", "index_document"}
        /\ Malformed(last)
        /\ last'.op = "return")
       => /\ ~last'.out.raised
          /\ ZeroChunks(last, last'.out.ret)
          /\ text_store' = text_store
          /\ _corpus' = _corpus]_vars

\* index_document raised on a file of a format that is not supported
C18_Witness ==
    /\ Ended("index_document")
    /\ last.call.file.ext = ".docx"
    /\ last.out.raised

\* every thread's call has ended
AllDone == threads # <<>> /\ \A t \in DOMAIN threads : threads[t].pc = "done"

\* both calls are add_documents or delete_by_source
TwoWriters ==
    \A t \in DOMAIN threads : threads[t].method \in {"add_documents", "delete_by_source"}

\* _corpus, _tokenized_corpus and _indexed_ids hold the same entries in the
\* same order
Aligned ==
    /\ Len(_tokenized_corpus) = Len(_corpus)
    /\ \A i \in 1..Len(_corpus) : _tokenized_corpus[i] = _corpus[i].tokens
    /\ _indexed_ids = {_corpus[i].doc_id : i \in 1..Len(_corpus)}

\* C14: after two concurrent calls of add_documents and delete_by_source on
\* one manager, under every interleaving, no two entries of the corpus have
\* the same key, and _corpus, _tokenized_corpus and _indexed_ids hold the
\* same entries in the same order.
C14_WritersSerialized ==
    (AllDone /\ TwoWriters)
    => NoDuplicateKeys /\ Aligned

\* two calls of add_documents have ended and the corpus holds one document
\* twice
C14_Witness ==
    /\ AllDone
    /\ \A t \in DOMAIN threads : threads[t].method = "add_documents"
    /\ ~threads[1].raised /\ ~threads[2].raised
    /\ Len(_corpus) = 2
    /\ _corpus[1].doc_id = _corpus[2].doc_id

\* thread t runs search while another thread runs add_documents or
\* delete_by_source
SearchBesideWriter(t) ==
    /\ threads[t].method = "search"
    /\ \E u \in DOMAIN threads :
          threads[u].method \in {"add_documents", "delete_by_source"}

\* the entry of result j is the one its score was computed for
ScoredEntry(f, j) ==
    _tokenize_korean(f.results[j][1].page_content)
        = f.scored[1].doc_freqs[f.top_indices[j]]

\* C15: a search that runs beside add_documents or delete_by_source does
\* not raise, and each entry it returns is the entry the score it is paired
\* with was computed for.
C15_SearchConsistent ==
    \A t \in DOMAIN threads :
        SearchBesideWriter(t)
        => /\ ~threads[t].raised
           /\ \A j \in 1..Len(threads[t].results) : ScoredEntry(threads[t], j)

\* a search beside delete_by_source has returned an entry under the score
\* of the entry that was deleted
C15_Witness ==
    \E t \in DOMAIN threads :
        /\ threads[t].method = "search"
        /\ threads[t].pc = "done"
        /\ ~threads[t].raised
        /\ \E u \in DOMAIN threads : threads[u].method = "delete_by_source"
        /\ \E j \in 1..Len(threads[t].results) : ~ScoredEntry(threads[t], j)

\* the (doc_id, page_content, metadata) entries of a corpus, in order
Entries(corpus) ==
    [i \in 1..Len(corpus) |->
        [doc_id |-> corpus[i].doc_id, page_content |-> corpus[i].page_content,
         metadata |-> corpus[i].metadata]]

\* the manager that holds the entries of `corpus` with the tokens of each
\* content, their keys and a ranking structure built from those tokens
Recomputed(manager, corpus) ==
    [manager EXCEPT
        !.corpus = [i \in 1..Len(corpus) |->
                       BM25Document(corpus[i].doc_id, corpus[i].page_content,
                                    corpus[i].metadata,
                                    _tokenize_korean(corpus[i].page_content))],
        !.tokenized_corpus = [i \in 1..Len(corpus) |->
                                 _tokenize_korean(corpus[i].page_content)],
        !.indexed_ids = {corpus[i].doc_id : i \in 1..Len(corpus)},
        !.bm25 = Some(BM25Okapi([i \in 1..Len(corpus) |->
                                    _tokenize_korean(corpus[i].page_content)]))]

\* C21: when save_index has written a corpus that is not empty, a
\* BM25IndexManager constructed on the same path holds the same sequence of
\* (doc_id, page_content, metadata) entries, the same set of keys and a
\* ranking structure, and its tokens are those of the contents.
C21_SaveLoadRoundTrip ==
    [][(/\ persist_file' # persist_file
        /\ persist_file' # None
        /\ persist_file'[1].readable
        /\ _corpus' # <<>>)
       => Reopened(auto_save, save_interval, persist_file')
          = Recomputed([BM25IndexManager(auto_save, save_interval) EXCEPT
                           !.file = persist_file'],
                       Entries(_corpus'))]_vars

\* a corpus of two entries of two sources was saved and reads back as it is
C21_Witness ==
    /\ last.op = "add_documents"
    /\ ~last.raised
    /\ last.io = "ok"
    /\ _changes_since_save = 0
    /\ Len(_corpus) = 2
    /\ persist_file # None
    /\ persist_file[1].readable
    /\ Entries(ReopenedNow.corpus) = Entries(_corpus)
    /\ ReopenedNow.bm25 # None

\* the scores search computed in the call that ended
ScoresOfLast == get_scores(_bm25[1], _tokenize_korean(last.call.query), last.call.weigh)

\* the corpus entries that result `result` can be: same content, same
\* metadata, and the score of the result
EntriesOf(result, scores) ==
    {i \in 1..Len(_corpus) :
        /\ _corpus[i].page_content = result[1].page_content
        /\ _corpus[i].metadata = result[1].metadata
        /\ scores[i] = result[2]}

\* what search returns is the best of the corpus under `scores`
BestOf(out, scores, k) ==
    /\ Len(out) <= k
    /\ \A j \in 1..Len(out) : out[j][2] > 0 /\ EntriesOf(out[j], scores) # {}
    /\ \A j \in 1..(Len(out) - 1) : out[j][2] >= out[j + 1][2]
    /\ \A i \in 1..Len(_corpus) :
          (\A j \in 1..Len(out) : i \notin EntriesOf(out[j], scores))
          => \A j \in 1..Len(out) : scores[i] <= out[j][2]

\* C22: search returns at most k results, each an entry of the corpus with
\* its score, which is above 0, in non-increasing order of score, and no
\* entry it leaves out has a higher score than one it returns; without a
\* query token or without a corpus it returns the empty list.
C22_SearchTopK ==
    Ended("search")
    => IF _corpus = <<>> \/ _bm25 = None \/ _tokenize_korean(last.call.query) = <<>>
       THEN last.out = <<>>
       ELSE BestOf(last.out, ScoresOfLast, last.call.k)

\* search cut a list of three entries with scores above 0 down to two, the
\* better one first though it is later in the corpus
C22_Witness ==
    /\ Ended("search")
    /\ last.call.k = 2
    /\ Len(last.out) = 2
    /\ last.out[1][2] > last.out[2][2]
    /\ Cardinality({i \in 1..Len(_corpus) : ScoresOfLast[i] > 0}) = 3
    /\ \E i \in 2..Len(_corpus) : i \in EntriesOf(last.out[1], ScoresOfLast)

ScoresReported == last.out.ret[1].scores

\* C23: in every RetrievalResult retrieve returns each reported score lies in
\* [0, 1] and the scores are non-increasing in result order, whether the
\* results were reranked, fused and not reranked, or came from the vector
\* search alone.
C23_ScoreRange ==
    (Ended("retrieve") /\ ~last.out.raised)
    => /\ \A i \in 1..Len(ScoresReported) :
              ScoresReported[i] >= 0 /\ ScoresReported[i] <= Unit
       /\ \A i \in 1..Len(ScoresReported) - 1 :
              ScoresReported[i] >= ScoresReported[i + 1]

\* the vector search alone, and a document at distance 1.5 from the query
\* reported with 1.0 - 1.5
C23_Witness ==
    /\ Ended("retrieve")
    /\ ~last.out.raised
    /\ ~RerankOfLast
    /\ ~config.use_hybrid
    /\ last.call.env.distance = Far(TextROE)
    /\ \E i \in 1..Len(ScoresReported) :
          /\ last.out.ret[1].text_results[i].page_content = TextROE
          /\ ScoresReported[i] = 0 - Unit \div 2

\* the pool size the searches are to be asked for: retrieval_k when
\* reranking or hybrid search is enabled, the requested k otherwise
PoolSizeOfLast ==
    IF RerankOfLast \/ config.use_hybrid THEN config.retrieval_k ELSE FinalKOfLast

\* C24: retrieve asks the Vector Index, and the Lexical Index when it is
\* used, for retrieval_k candidates whenever reranking or hybrid search is
\* enabled, and for the requested k only when both are disabled: what it
\* returns is what the searches for that many candidates lead to.
C24_PoolSize ==
    Ended("retrieve")
    => last.out = Searched(Rag, last.call.query, FinalKOfLast, RerankOfLast,
                           PoolSizeOfLast, last.call.env)

\* hybrid search without reranking and k = 1: each index is asked for one
\* candidate, and the passage returned is not the one the fusion of
\* retrieval_k candidates of each index puts first
C24_Witness ==
    /\ Ended("retrieve")
    /\ ~last.out.raised
    /\ config.use_hybrid
    /\ ~RerankOfLast
    /\ FinalKOfLast = 1
    /\ SearchK(Rag, last.call.k, last.call.use_reranker) = 1
    /\ config.retrieval_k > 1
    /\ LexicalOfLast # <<>>
    /\ Len(last.out.ret[1].text_results) = 1
    /\ last.out.ret[1].text_results
       # Searched(Rag, last.call.query, 1, FALSE, config.retrieval_k,
                  last.call.env).ret[1].text_results

\* a call of the manager that changes the index has completed
Completed ==
    /\ last.op \in {"add_documents", "add_texts", "delete_by_source", "clear", "load"}
    /\ ~last.raised

\* C25: with rank_bm25 available, after every completed add_documents,
\* delete_by_source, clear or load, _corpus, _tokenized_corpus and
\* _indexed_ids are aligned and the ranking structure is the one built from
\* the full current token corpus; it is absent exactly when the corpus is
\* empty.
C25_AlignedAndRebuilt ==
    (BM25_AVAILABLE /\ Completed)
    => /\ Aligned
       /\ (_bm25 = None) <=> (_corpus = <<>>)
       /\ _corpus # <<>> => _bm25 = Some(BM25Okapi(_tokenized_corpus))

\* a deletion that leaves one of two entries, with the ranking structure
\* over the one that is left
C25_Witness ==
    /\ BM25_AVAILABLE
    /\ last.op = "delete_by_source"
    /\ ~last.raised
    /\ last.ret = Some(1)
    /\ Len(_corpus) = 1
    /\ _bm25 # None
    /\ _bm25[1].corpus_size = 1
    /\ Aligned

CandidatesOfLast == ContentsOf(last.call.vector_results)

\* C26: for n candidates and batch_size b >= 1, rerank sends the candidates
\* to the model in consecutive batches of at most b, each candidate in one
\* batch; every result carries the score the model gave to
\* documents[original_index], no candidate is returned twice, and retrieve
\* pairs that score with the Document at that position of the pool.
C26_BatchedScores ==
    Ended("rerank")
    => /\ Concat(last.batches) = CandidatesOfLast
       /\ \A b \in 1..Len(last.batches) :
              /\ Len(last.batches[b]) >= 1
              /\ Len(last.batches[b]) <= last.call.batch_size
              /\ b < Len(last.batches)
                    => Len(last.batches[b]) = last.call.batch_size
       /\ Len(last.rerank_results)
            = Min(last.call.final_k, Len(CandidatesOfLast))
       /\ \A i \in 1..Len(last.rerank_results) :
              /\ last.rerank_results[i].original_index \in 0..Len(CandidatesOfLast) - 1
              /\ last.rerank_results[i].score
                    = last.call.oracle.score[
                          CandidatesOfLast[last.rerank_results[i].original_index + 1]]
              /\ \A j \in 1..Len(last.rerank_results) :
                    last.rerank_results[i].original_index
                      = last.rerank_results[j].original_index => i = j
              /\ last.out.ret[1].text_results[i]
                    = last.call.vector_results[
                          last.rerank_results[i].original_index + 1][1]
              /\ last.out.ret[1].scores[i] = last.rerank_results[i].score
       /\ Len(last.out.ret[1].text_results) = Len(last.rerank_results)
       /\ Len(last.out.ret[1].scores) = Len(last.rerank_results)

\* four candidates in batches of three and of one: the last candidate scores
\* best and comes back first, with its own metadata
C26_Witness ==
    /\ Ended("rerank")
    /\ Len(last.call.vector_results) = 4
    /\ last.call.batch_size = 3
    /\ Len(last.batches) = 2
    /\ Len(last.batches[2]) = 1
    /\ last.call.final_k = 2
    /\ last.rerank_results[1].original_index = 3
    /\ last.out.ret[1].text_results[1] = last.call.vector_results[4][1]
    /\ last.out.ret[1].text_results[1] # last.call.vector_results[1][1]
    /\ last.out.ret[1].scores[1] > last.out.ret[1].scores[2]

\* the file cannot be loaded: there is none, it is not JSON, or one of its
\* entries lacks a key
Unloadable(file) ==
    \/ file = None
    \/ ~file[1].readable
    \/ \E i \in 1..Len(file[1].documents) : ~WellFormed(file[1].documents[i])

\* C27: a BM25IndexManager constructed on a file that is missing, unreadable
\* or malformed, also when entries were read before the failure, is empty
\* and consistent: no corpus entry, no token list, no dedup key and no
\* ranking structure.
C27_LoadFailureLeavesEmpty ==
    (Ended("__init__") /\ Unloadable(last.file))
    => /\ _corpus = <<>>
       /\ _tokenized_corpus = <<>>
       /\ _indexed_ids = {}
       /\ _bm25 = None
       /\ _changes_since_save = 0
       /\ persist_file = last.file

\* two entries that load, then one without "page_content"
C27_Witness ==
    /\ Ended("__init__")
    /\ BM25_AVAILABLE
    /\ last.file # None
    /\ last.file[1].readable
    /\ Len(last.file[1].documents) = 3
    /\ WellFormed(last.file[1].documents[1])
    /\ WellFormed(last.file[1].documents[2])
    /\ ~WellFormed(last.file[1].documents[3])
    /\ Len(LoadLoop([BM25IndexManager(auto_save, save_interval)
                        EXCEPT !.file = last.file],
                    last.file[1].documents).corpus) = 2
    /\ _corpus = <<>>
    /\ _indexed_ids = {}

\* what identifies a passage in an index: its content, source and page
PassageOf(doc) ==
    <<doc.page_content, doc.metadata.source, doc.metadata.page_num>>

\* C28: after index_document with hybrid search enabled (rank_bm25 there,
\* the stores working, both indexes empty before), the Lexical Index and the
\* Vector Index hold the same passages under the same source and page
\* number.
C28_SamePassages ==
    (/\ Ended("index_document")
     /\ ~last.out.raised
     /\ config.use_hybrid
     /\ BM25_AVAILABLE)
    => {PassageOf(text_store[i]) : i \in 1..Len(text_store)}
       = {PassageOf(_corpus[i]) : i \in 1..Len(_corpus)}

\* a page of chunk_size + 1 characters indexed with chunk_text=True: two
\* passages in the Vector Index, the whole page in the Lexical Index
C28_Witness ==
    /\ Ended("index_document")
    /\ ~last.out.raised
    /\ config.use_hybrid
    /\ BM25_AVAILABLE
    /\ last.call.chunk_text
    /\ last.call.file.texts = <<TextLongPage>>
    /\ Len(text_store) = 2
    /\ Len(text_store[1].page_content) = ChunkSize
    /\ Len(_corpus) = 1
    /\ _corpus[1].page_content = TextLongPage

TopFrame == last.stack[Len(last.stack)]
\* the step is a pass of the while loop of _split_by_length
WhilePassed ==
    /\ last.op = "run"
    /\ TopFrame.pc = "while"
    /\ TopFrame.start < Len(TopFrame.text)
\* the step is a call of _split_recursive from the loop of _split_recursive
Descended ==
    /\ last.op = "run"
    /\ last'.op = "run"
    /\ Len(last'.stack) = Len(last.stack) + 1

\* C29: with chunk_size >= 1 and 0 <= chunk_overlap < chunk_size,
\* split_text returns for every text: each pass of the forced length split
\* moves start forward by at least one character, not beyond the end of the
\* text, each nested call of _split_recursive has fewer separators than its
\* caller, and the call ends.
C29_SplitTerminates ==
    /\ [][WhilePassed
            => /\ last'.stack[Len(last.stack)].start >= TopFrame.start + 1
               /\ last'.stack[Len(last.stack)].start <= Len(TopFrame.text)]_vars
    /\ [][Descended
            => /\ Len(last'.stack[Len(last'.stack)].separators)
                    < Len(TopFrame.separators)
               /\ Len(last'.stack[Len(last'.stack)].text) <= Len(TopFrame.text)]_vars
    /\ <>(last.op = "return")

\* a text of three letters and chunk_size 2, chunk_overlap 1: the call went
\* down through the four separators, the length split made two passes,
\* and split_text returned the chunks the recursion gives
C29_Witness ==
    /\ last.op = "return"
    /\ last.call.text = <<"a", "a", "a">>
    /\ last.call.chunk_size = 2
    /\ last.call.chunk_overlap = 1
    /\ last.chunks = << <<"a", "a">>, <<"a", "a">> >>
    /\ last.chunks = _split_recursive(last.call.text, DefaultSeparators, 2, 1)
    /\ last.out = split_text(last.call.text, EmptyDict, 2, 1, DefaultSeparators)

\* two passages agree on source, page_num and the first 200 characters
SameKeyParts(d, e) ==
    /\ d.metadata.source = e.metadata.source
    /\ d.metadata.page_num = e.metadata.page_num
    /\ Prefix(d.page_content, PrefixLen) = Prefix(e.page_content, PrefixLen)

\* the passage at place j of the batch has tokens, and neither an entry of
\* the corpus nor a passage with tokens before it in the batch agrees with
\* it on the three parts
FirstOfItsKey(corpus, documents, j) ==
    /\ _tokenize_korean(documents[j].page_content) # <<>>
    /\ \A i \in 1..Len(corpus) : ~SameKeyParts(corpus[i], documents[j])
    /\ \A i \in 1..(j - 1) :
          _tokenize_korean(documents[i].page_content) # <<>>
          => ~SameKeyParts(documents[i], documents[j])

\* the places of `places`, in order
Ascending(places) ==
    [n \in 1..Cardinality(places) |->
        CHOOSE j \in places : Cardinality({h \in places : h < j}) = n - 1]

\* the content and metadata of the entries
Held(corpus) ==
    [i \in 1..Len(corpus) |->
        Document(corpus[i].page_content, corpus[i].metadata)]

\* C30: add_documents takes two passages that agree on source, page_num and
\* the first 200 characters of the content for the same passage, whatever
\* follows character 200: it appends the first passage of each such key
\* that the corpus does not hold, in the order of the batch, and returns
\* their number.
C30_KeyOfPrefix ==
    [][(BM25_AVAILABLE /\ last.op = "call" /\ last.name = "add_documents"
        /\ last'.op = "return")
       => /\ Held(_corpus')
             = Held(_corpus)
               \o [n \in 1..Cardinality({j \in 1..Len(last.documents) :
                                            FirstOfItsKey(_corpus, last.documents, j)}) |->
                      last.documents[
                          Ascending({j \in 1..Len(last.documents) :
                                        FirstOfItsKey(_corpus, last.documents, j)})[n]]]
          /\ last'.out = Some(Cardinality({j \in 1..Len(last.documents) :
                                              FirstOfItsKey(_corpus, last.documents, j)}))]_vars

\* TextLongA and TextLongB of the same page in one batch: the first is
\* indexed, the second is not, and 1 is returned
C30_Witness ==
    /\ Ended("add_documents")
    /\ BM25_AVAILABLE
    /\ Len(last.call.documents) = 2
    /\ last.call.documents[1].page_content = TextLongA
    /\ last.call.documents[2].page_content = TextLongB
    /\ last.call.documents[1].metadata = last.call.documents[2].metadata
    /\ TextLongA # TextLongB
    /\ last.out = Some(1)
    /\ Len(_corpus) = 1
    /\ _corpus[1].page_content = TextLongA
====
